---- MODULE Spec2Model ----
(***************************************************************************)
(* Model of the SQLAlchemy model view of flask-admin:                      *)
(*   flask_admin/contrib/sqla/view.py    (ModelView)                       *)
(*   flask_admin/contrib/sqla/fields.py  (inline and query select fields)  *)
(*                                                                         *)
(* The module holds eleven state machines over disjoint groups of          *)
(* variables:                                                              *)
(*   SpecJoins      - ModelView._apply_path_joins on one joins map         *)
(*   SpecMutate     - create_model / update_model / delete_model /         *)
(*                    action_delete on a borrowed session                  *)
(*   SpecInlineList - InlineModelFormList.populate_obj                     *)
(*   SpecInlineOne  - InlineModelOneToOneField.populate_obj                *)
(*   SpecSearch     - ModelView._apply_search on a listing query and its   *)
(*                    count query                                          *)
(*   SpecGetList    - ModelView.get_list: search, filters, count, sorting, *)
(*                    pagination                                           *)
(*   SpecRegister   - ModelView.__init__ and the configuration it reads    *)
(*   SpecSelect     - QuerySelectField during a request                    *)
(*   SpecSelectMultiple - QuerySelectMultipleField during a request        *)
(*   SpecPk         - get_pk_value and get_one: keys as identifiers        *)
(*   SpecPair       - two get_list calls stepping through one view         *)
(* A specification leaves the variables of the other groups parked at      *)
(* their initial value.                                                    *)
(***************************************************************************)
EXTENDS Integers, Sequences, FiniteSets, TLC

VARIABLES
    \* ---- join planner (view.py:428-471)
    query,        \* join clauses appended to the query, in order
    joins,        \* the joins dict: (inner_join, item) -> alias
    last,         \* alias returned by the latest _apply_path_joins call
    nalias,       \* number of aliased() objects allocated in this pass
    ncalls,       \* number of _apply_path_joins calls made in this pass
    passed        \* what the latest call was passed as inner_join

joinVars == <<query, joins, last, nalias, ncalls, passed>>

VARIABLES
    \* ---- mutation handlers (view.py:1308-1475)
    cfgIntegrity,   \* current_app.config FLASK_ADMIN_RAISE_ON_INTEGRITY_ERROR
    cfgView,        \* current_app.config FLASK_ADMIN_RAISE_ON_VIEW_EXCEPTION
    fastMassDelete, \* ModelView.fast_mass_delete
    db,             \* primary keys of the committed rows
    sess,           \* the session: the unit of work the view borrows
    op              \* the latest handler call: arguments, steps taken, outcome

mutVars == <<cfgIntegrity, cfgView, fastMassDelete, db, sess, op>>

VARIABLES
    \* ---- InlineModelFormList.populate_obj (fields.py:350-376)
    children,     \* the parent's collection: getattr(obj, name)
    sdeleted,     \* objects handed to session.delete, in order
    listLog,      \* the latest populate_obj call: entries, steps, state before
    \* ---- InlineModelOneToOneField.populate_obj (fields.py:417-442)
    onePk,        \* self._pk: get_primary_key of the child model
    one,          \* the parent's one-to-one attribute: a child or none
    oneLog        \* the latest populate_obj call: form, hook calls, state before

listVars == <<children, sdeleted, listLog>>
oneVars == <<onePk, one, oneLog>>

VARIABLES
    \* ---- _apply_search (view.py:1087-1137)
    simpleListPager, \* ModelView.simple_list_pager: no count query is built
    srch             \* the latest _apply_search call: argument and results

searchVars == <<simpleListPager, srch>>

VARIABLES
    \* ---- get_list (view.py:1214-1288)
    viewPageSize,    \* ModelView.page_size
    lst              \* the latest get_list call: arguments and results

getListVars == <<viewPageSize, lst>>

VARIABLES
    \* ---- view registration (view.py:383-407, 564-617, 669-698, 727-848)
    reg              \* the view being constructed: configuration and outcome

regVars == <<reg>>

VARIABLES
    \* ---- query select fields (fields.py:37-215)
    sel,             \* a QuerySelectField during one request
    msel             \* a QuerySelectMultipleField during one request

selVars == <<sel>>
mselVars == <<msel>>

VARIABLES
    \* ---- primary-key identifiers (view.py:481-492, 1290-1305)
    pkv              \* one get_pk_value / get_one exchange

pkVars == <<pkv>>

VARIABLES
    \* ---- get_list calls in flight on one view (view.py:1214-1288)
    viewState,       \* the view-level maps the list operation reads
    inflight         \* per request: how far its get_list call is, and its locals

pairVars == <<viewState, inflight>>

vars == <<joinVars, mutVars, listVars, oneVars, searchVars, getListVars, regVars, selVars, mselVars, pkVars, pairVars>>

\* What the actions of one group leave alone
notJoinVars == <<mutVars, listVars, oneVars, searchVars, getListVars, regVars, selVars, mselVars, pkVars, pairVars>>
notMutVars == <<joinVars, listVars, oneVars, searchVars, getListVars, regVars, selVars, mselVars, pkVars, pairVars>>
notListVars == <<joinVars, mutVars, oneVars, searchVars, getListVars, regVars, selVars, mselVars, pkVars, pairVars>>
notOneVars == <<joinVars, mutVars, listVars, searchVars, getListVars, regVars, selVars, mselVars, pkVars, pairVars>>
notSearchVars == <<joinVars, mutVars, listVars, oneVars, getListVars, regVars, selVars, mselVars, pkVars, pairVars>>
notRegVars == <<joinVars, mutVars, listVars, oneVars, searchVars, getListVars, selVars, mselVars, pkVars, pairVars>>
notSelVars == <<joinVars, mutVars, listVars, oneVars, searchVars, getListVars, regVars, mselVars, pkVars, pairVars>>
notMselVars == <<joinVars, mutVars, listVars, oneVars, searchVars, getListVars, regVars, selVars, pkVars, pairVars>>
notPkVars == <<joinVars, mutVars, listVars, oneVars, searchVars, getListVars, regVars, selVars, mselVars, pairVars>>
notPairVars == <<joinVars, mutVars, listVars, oneVars, searchVars, getListVars, regVars, selVars, mselVars, pkVars>>
notGetListVars == <<joinVars, mutVars, listVars, oneVars, srch, regVars, selVars, mselVars, pkVars, pairVars>>

(***************************************************************************)
(* Bounds                                                                  *)
(***************************************************************************)
\* _apply_path_joins calls in one query-build pass
MaxCalls == 3
\* rows the table can hold
MaxRows == 2
\* child rows one parent can have in the database
MaxChildren == 2
\* rows of one submitted inline list
MaxEntries == 3
\* characters of one search string
MaxSearchLen == 3
\* the highest page number asked for
MaxPage == 2
\* the highest page size asked for
MaxPageSize == 2
\* names in one configuration list of a view
MaxNames == 1
\* objects a select field's query can return
MaxObjects == 2
\* characters in a text component of a primary key
MaxKeyLen == 2

(***************************************************************************)
(* Join planner: ModelView._apply_path_joins                               *)
(***************************************************************************)
\* None, as the value of `alias` and `last` (view.py:448, 453)
NoAlias == 0

\* Things a join path is made of: relationship attributes and Table objects
\* (rel_a and rel_c are relationships of the view's model, rel_b one of
\* rel_a's target)
Relations == {"rel_a", "rel_b", "rel_c"}
Tables == {"tbl_t"}
Items == Relations \cup Tables

\* isinstance(item, Table)
IsTable(item) == item \in Tables

RECURSIVE SeqsUpTo(_, _)
SeqsUpTo(S, n) ==
    IF n = 0 THEN {<<>>}
    ELSE LET shorter == SeqsUpTo(S, n - 1)
         IN shorter \cup {Append(q, x) : q \in {t \in shorter : Len(t) = n - 1}, x \in S}

\* The join paths handed to _apply_path_joins: None or empty, one hop,
\* relation after relation, a hop after a table hop, one relation twice
Paths ==
    {<<>>, <<"rel_a">>, <<"rel_a", "rel_b">>, <<"rel_c">>, <<"tbl_t">>,
     <<"tbl_t", "rel_c">>, <<"rel_a", "rel_a">>}

\* joins.get(key)
JoinsGet(js, key) == IF key \in DOMAIN js THEN js[key] ELSE NoAlias

\* query.join / query.outerjoin with the argument forms of view.py:461-465:
\*   target = NoAlias  : fn(item)  resp. fn(getattr(last, item.key))
\*   target # NoAlias  : fn(alias, item) resp. fn(alias, getattr(last, item.key))
\*   parent = NoAlias  : the item is joined as it is (from the base entity)
JoinClause(inner_join, item, alias, parent) ==
    [fn |-> IF inner_join THEN "join" ELSE "outerjoin",
     item |-> item, target |-> alias, parent |-> parent]

\* A variant that never consults the cache: every hop is joined again.
PathHopNoCache(st, item, inner_join) ==
    LET key == <<inner_join, item>>
        alias == IF ~IsTable(item) THEN st.nalias + 1 ELSE NoAlias
    IN [query |-> Append(st.query, JoinClause(inner_join, item, alias, st.last)),
        joins |-> (key :> alias) @@ st.joins,
        last |-> alias,
        nalias |-> IF ~IsTable(item) THEN st.nalias + 1 ELSE st.nalias]

\* A variant that sets `last` only when it joins: after a hop served from
\* the joins dict the next hop does not chain off it.
PathHopLastWhenJoined(st, item, inner_join) ==
    LET key == <<inner_join, item>>
    IN IF key \notin DOMAIN st.joins
       THEN LET alias == IF ~IsTable(item) THEN st.nalias + 1 ELSE NoAlias
            IN [query |-> Append(st.query, JoinClause(inner_join, item, alias, st.last)),
                joins |-> (key :> alias) @@ st.joins,
                last |-> alias,
                nalias |-> IF ~IsTable(item) THEN st.nalias + 1 ELSE st.nalias]
       ELSE st

\* One iteration of the loop of view.py:451-469
PathHop(st, item, inner_join) ==
    LET key == <<inner_join, item>>
        cached == JoinsGet(st.joins, key)
    IN IF key \notin DOMAIN st.joins
       THEN LET alias == IF ~IsTable(item) THEN st.nalias + 1 ELSE cached
            IN [query |-> Append(st.query, JoinClause(inner_join, item, alias, st.last)),
                joins |-> (key :> alias) @@ st.joins,
                last |-> alias,
                nalias |-> IF ~IsTable(item) THEN st.nalias + 1 ELSE st.nalias]
       ELSE [st EXCEPT !.last = cached]

RECURSIVE PathLoop(_, _, _, _)
PathLoop(st, path, inner_join, i) ==
    IF i > Len(path) THEN st
    ELSE PathLoop(PathHop(st, path[i], inner_join), path, inner_join, i + 1)

\* _apply_path_joins(query, joins, path, inner_join); `n` is the number of
\* aliases allocated so far, so that aliased() yields a new object each time.
ApplyPathJoins(q, js, path, inner_join, n) ==
    PathLoop([query |-> q, joins |-> js, last |-> NoAlias, nalias |-> n],
             path, inner_join, 1)

\* What a caller passes as inner_join: nothing, True or False
InnerJoinArgs == {"omitted", "True", "False"}

\* A variant whose default is the outer join
InnerJoinDefaultOuter(arg) == arg = "True"

\* The parameter `inner_join: bool = True` (view.py:433)
InnerJoin(arg) == IF arg = "omitted" THEN TRUE ELSE arg = "True"

JoinsInit ==
    /\ query = <<>>
    /\ joins = <<>>
    /\ last = NoAlias
    /\ nalias = 0
    /\ ncalls = 0
    /\ passed = "none"

\* One call of _apply_path_joins on the pass's query and joins map
ApplyPathJoinsCall(path, inner_join) ==
    LET r == ApplyPathJoins(query, joins, path, inner_join, nalias)
    IN /\ ncalls < MaxCalls
       /\ ncalls' = ncalls + 1
       /\ query' = r.query
       /\ joins' = r.joins
       /\ last' = r.last
       /\ nalias' = r.nalias
       /\ UNCHANGED notJoinVars

\* A new query-build pass starts from a new query and an empty joins dict
NewPass ==
    /\ ncalls > 0
    /\ ncalls' = 0
    /\ query' = <<>>
    /\ joins' = <<>>
    /\ last' = NoAlias
    /\ nalias' = 0
    /\ passed' = "none"
    /\ UNCHANGED notJoinVars

ApplyAnyPath ==
    \E path \in Paths, arg \in InnerJoinArgs :
        /\ ApplyPathJoinsCall(path, InnerJoin(arg))
        /\ passed' = arg

NextJoins ==
    \/ ApplyAnyPath
    \/ NewPass

(***************************************************************************)
(* Mutation handlers: handle_view_exception, create_model, update_model,   *)
(* delete_model, action_delete                                             *)
(***************************************************************************)
PKs == 1..MaxRows

\* No primary key: a new object, or a step that belongs to no single row
NoPk == 0

\* A configuration key is absent, or set to a true or a false value
ConfigValues == {"unset", "true", "false"}

\* Exceptions: sqlalchemy.exc.IntegrityError, and any other Exception
ExcKinds == {"integrity", "other"}

CleanSession == [added |-> 0, dirty |-> {}, removed |-> {}, bulk |-> {}, failed |-> FALSE]

CreateSteps == <<"build_new_instance", "populate_obj", "add", "on_model_change", "commit">>
UpdateSteps == <<"populate_obj", "on_model_change", "commit">>
\* A variant that flushes before it calls the pre-delete hook
DeleteStepsFlushFirst == <<"flush", "on_model_delete", "delete", "commit">>
DeleteSteps == <<"on_model_delete", "flush", "delete", "commit">>

\* The steps that talk to the database inside the transaction
IsDatabaseStep(step) == step \in {"flush", "commit", "bulk_delete"}

Event(ev, row, ok) == [ev |-> ev, row |-> row, ok |-> ok]

Log(s, ev, row, ok) == [s EXCEPT !.trace = Append(@, Event(ev, row, ok))]

\* The injected failure: step `failAt` raises `exc` for the rows of `failRows`
Fails(in, step, row) == in.failAt = step /\ row \in in.failRows

SmallestFree(rows) == CHOOSE k \in PKs \ rows : \A m \in PKs \ rows : k <= m

\* session.commit(): pending inserts, updates and deletes reach the table
Committed(s) ==
    LET kept == s.db \ (s.sess.removed \cup s.sess.bulk)
    IN IF s.sess.added > 0 /\ PKs \ s.db # {}
       THEN kept \cup {SmallestFree(s.db)}
       ELSE kept

\* The effect of one step that does not raise
StepEffect(s, step, row, rows) ==
    CASE step = "populate_obj" /\ row # NoPk -> [s EXCEPT !.sess.dirty = @ \cup {row}]
      [] step = "add" -> [s EXCEPT !.sess.added = @ + 1]
      [] step = "delete" -> [s EXCEPT !.sess.removed = @ \cup {row}]
      [] step = "bulk_delete" -> [s EXCEPT !.sess.bulk = @ \cup rows]
      [] step = "commit" -> [s EXCEPT !.db = Committed(s), !.sess = CleanSession]
      [] step = "rollback" -> [s EXCEPT !.sess = CleanSession]
      [] OTHER -> s

\* One call inside a handler: it is logged, and it either raises or acts
RunStep(s, step, row, rows, in) ==
    IF Fails(in, step, row)
    THEN [s |-> Log(IF IsDatabaseStep(step) THEN [s EXCEPT !.sess.failed = TRUE] ELSE s,
                    step, row, FALSE),
          exc |-> in.exc]
    ELSE [s |-> Log(StepEffect(s, step, row, rows), step, row, TRUE), exc |-> "none"]

\* The statements of a try block, up to the first that raises
RECURSIVE TryBlock(_, _, _, _, _)
TryBlock(s, steps, i, row, in) ==
    IF i > Len(steps) THEN [s |-> s, exc |-> "none"]
    ELSE LET r == RunStep(s, steps[i], row, {}, in)
         IN IF r.exc # "none" THEN r ELSE TryBlock(r.s, steps, i + 1, row, in)

Truthy(v) == v = "true"

\* config.get(key, default): the default only when the key is absent
ConfigGet(v, default) == IF v = "unset" THEN default ELSE v

\* BaseModelView.handle_view_exception for an exception that is no
\* integrity error: not handled, the caller reports the generic failure
BaseHandleViewException(exc) == "unhandled"

\* The variant that reads FLASK_ADMIN_RAISE_ON_INTEGRITY_ERROR alone
HandleViewExceptionNoFallback(exc) ==
    IF exc = "integrity"
    THEN IF Truthy(cfgIntegrity) THEN "raise" ELSE "handled"
    ELSE BaseHandleViewException(exc)

\* ModelView.handle_view_exception: "raise" re-raises the exception,
\* "handled" is True (after flashing the integrity error), "unhandled" False
HandleViewException(exc) ==
    IF exc = "integrity"
    THEN IF Truthy(ConfigGet(cfgIntegrity, ConfigGet(cfgView, "unset")))
         THEN "raise"
         ELSE "handled"
    ELSE BaseHandleViewException(exc)

\* The except clause without the rollback
ExceptClauseNoRollback(s, exc, row) ==
    LET h == HandleViewException(exc)
        s1 == Log(s, "handle_view_exception", row, h # "raise")
    IN IF h = "raise"
       THEN [s |-> s1, result |-> "raised", exc |-> exc]
       ELSE LET s2 == IF h = "handled"
                      THEN Log(s1, "flash_integrity_error", row, TRUE)
                      ELSE Log(Log(s1, "flash_failed", row, TRUE), "log_exception", row, TRUE)
            IN [s |-> s2, result |-> "False", exc |-> "none"]

\* The except clause of create_model, update_model and delete_model
ExceptClause(s, exc, row) ==
    LET h == HandleViewException(exc)
        s1 == Log(s, "handle_view_exception", row, h # "raise")
    IN IF h = "raise"
       THEN [s |-> s1, result |-> "raised", exc |-> exc]
       ELSE LET s2 == IF h = "handled"
                      THEN Log(s1, "flash_integrity_error", row, TRUE)
                      ELSE Log(Log(s1, "flash_failed", row, TRUE), "log_exception", row, TRUE)
                s3 == Log(StepEffect(s2, "rollback", row, {}), "rollback", row, TRUE)
            IN [s |-> s3, result |-> "False", exc |-> "none"]

\* The handler with the post-commit hook as the last statement of the try
\* block: what the hook raises goes to the except clause
HandlerHookInTry(s, steps, after, success, row, in) ==
    LET t == TryBlock(s, Append(steps, after), 1, row, in)
    IN IF t.exc # "none"
       THEN ExceptClause(t.s, t.exc, row)
       ELSE [s |-> t.s, result |-> success, exc |-> "none"]

\* try: steps / except: ... return False / else: the post-commit hook
Handler(s, steps, after, success, row, in) ==
    LET t == TryBlock(s, steps, 1, row, in)
    IN IF t.exc # "none"
       THEN ExceptClause(t.s, t.exc, row)
       ELSE LET a == RunStep(t.s, after, row, {}, in)
            IN IF a.exc # "none"
               THEN [s |-> a.s, result |-> "raised", exc |-> a.exc]
               ELSE [s |-> a.s, result |-> success, exc |-> "none"]

CreateModelRun(s, in) == Handler(s, CreateSteps, "after_model_change", "model", NoPk, in)

UpdateModelRun(s, row, in) == Handler(s, UpdateSteps, "after_model_change", "True", row, in)

DeleteModelRun(s, row, in) == Handler(s, DeleteSteps, "after_model_delete", "True", row, in)

RECURSIVE SortedSeq(_)
SortedSeq(S) ==
    IF S = {} THEN <<>>
    ELSE LET m == CHOOSE k \in S : \A j \in S : k <= j
         IN <<m>> \o SortedSeq(S \ {m})

\* The loop that stops at the first row delete_model returns False for
RECURSIVE DeleteLoopStopAtFalse(_, _, _, _, _)
DeleteLoopStopAtFalse(s, rows, i, count, in) ==
    IF i > Len(rows) THEN [s |-> s, exc |-> "none", count |-> count]
    ELSE LET d == DeleteModelRun(s, rows[i], in)
         IN IF d.result = "raised"
            THEN [s |-> d.s, exc |-> d.exc, count |-> count]
            ELSE IF d.result = "True"
                 THEN DeleteLoopStopAtFalse(d.s, rows, i + 1, count + 1, in)
                 ELSE [s |-> d.s, exc |-> "none", count |-> count]

\* for m in query.all(): if self.delete_model(m): count += 1
RECURSIVE DeleteLoop(_, _, _, _, _)
DeleteLoop(s, rows, i, count, in) ==
    IF i > Len(rows) THEN [s |-> s, exc |-> "none", count |-> count]
    ELSE LET d == DeleteModelRun(s, rows[i], in)
         IN IF d.result = "raised"
            THEN [s |-> d.s, exc |-> d.exc, count |-> count]
            ELSE DeleteLoop(d.s, rows, i + 1,
                            IF d.result = "True" THEN count + 1 ELSE count, in)

\* The loop that counts every row it went through
RECURSIVE DeleteLoopCountAll(_, _, _, _, _)
DeleteLoopCountAll(s, rows, i, count, in) ==
    IF i > Len(rows) THEN [s |-> s, exc |-> "none", count |-> count]
    ELSE LET d == DeleteModelRun(s, rows[i], in)
         IN IF d.result = "raised"
            THEN [s |-> d.s, exc |-> d.exc, count |-> count]
            ELSE DeleteLoopCountAll(d.s, rows, i + 1, count + 1, in)

\* The variant that takes the row-by-row path whatever fast_mass_delete is
DeleteSelectedNeverFast(s, rows, in) ==
    DeleteLoop(s, SortedSeq(rows), 1, 0, in)

\* The variant that counts the rows gone through, not the successes
DeleteSelectedCountAll(s, rows, in) ==
    IF fastMassDelete
    THEN LET r == RunStep(s, "bulk_delete", NoPk, rows, in)
         IN [s |-> r.s, exc |-> r.exc, count |-> Cardinality(rows)]
    ELSE DeleteLoopCountAll(s, SortedSeq(rows), 1, 0, in)

\* The body of the try block of action_delete, up to the commit
DeleteSelected(s, rows, in) ==
    IF fastMassDelete
    THEN LET r == RunStep(s, "bulk_delete", NoPk, rows, in)
         IN [s |-> r.s, exc |-> r.exc, count |-> Cardinality(rows)]
    ELSE DeleteLoop(s, SortedSeq(rows), 1, 0, in)

\* The except clause of action_delete: re-raise what is not handled, flash
\* what is; the session is not touched
ActionDeleteExcept(s, exc) ==
    LET h == HandleViewException(exc)
        s1 == Log(s, "handle_view_exception", NoPk, h = "handled")
    IN IF h = "handled"
       THEN [s |-> Log(s1, "flash_failed", NoPk, TRUE), result |-> "None",
             exc |-> "none", count |-> 0]
       ELSE [s |-> s1, result |-> "raised", exc |-> exc, count |-> 0]

\* action_delete(ids)
ActionDeleteRun(s, ids, in) ==
    LET rows == ids \cap s.db
        s0 == Log(s, "get_query_for_ids", NoPk, TRUE)
        d == DeleteSelected(s0, rows, in)
    IN IF d.exc # "none"
       THEN ActionDeleteExcept(d.s, d.exc)
       ELSE LET c == RunStep(d.s, "commit", NoPk, {}, in)
            IN IF c.exc # "none"
               THEN ActionDeleteExcept(c.s, c.exc)
               ELSE [s |-> Log(c.s, "flash_success", NoPk, TRUE), result |-> "None",
                     exc |-> "none", count |-> d.count]

NoFailure == [failAt |-> "none", exc |-> "none", failRows |-> {}]

SeqRange(q) == {q[i] : i \in 1..Len(q)}

\* The failures a call can meet: none, or the steps `steps` raising an
\* exception of either kind for a non-empty set of the rows `rows`
Failures(steps, rows) ==
    {NoFailure} \cup
    {[failAt |-> st, exc |-> k, failRows |-> fr] :
        st \in steps, k \in ExcKinds, fr \in (SUBSET rows) \ {{}}}

\* The failures of action_delete: of its own statements (rows: NoPk), and,
\* on the row-by-row path, of the steps of delete_model for some rows
ActionDeleteFailures(rows) ==
    IF fastMassDelete
    THEN Failures({"bulk_delete", "commit"}, {NoPk})
    ELSE Failures({"commit"}, rows \cup {NoPk})
         \cup Failures({"on_model_delete", "flush", "delete", "after_model_delete"}, rows)

NoOp == [name |-> "none", arg |-> {}, in |-> NoFailure, trace |-> <<>>,
         result |-> "none", exc |-> "none", count |-> 0, before |-> {}]

MutInit ==
    /\ cfgIntegrity \in ConfigValues
    /\ cfgView \in ConfigValues
    /\ fastMassDelete \in BOOLEAN
    /\ db = {}
    /\ sess = CleanSession
    /\ op = NoOp

MutParked ==
    /\ cfgIntegrity = "unset"
    /\ cfgView = "unset"
    /\ fastMassDelete = FALSE
    /\ db = {}
    /\ sess = CleanSession
    /\ op = NoOp

Start == [db |-> db, sess |-> sess, trace |-> <<>>]

Finish(name, arg, in, r, count) ==
    /\ db' = r.s.db
    /\ sess' = r.s.sess
    /\ op' = [name |-> name, arg |-> arg, in |-> in, trace |-> r.s.trace,
              result |-> r.result, exc |-> r.exc, count |-> count, before |-> db]
    /\ UNCHANGED <<cfgIntegrity, cfgView, fastMassDelete>>
    /\ UNCHANGED notMutVars

\* No request is being served
Idle == op = NoOp /\ sess = CleanSession

\* A request that calls create_model(form)
CreateModel ==
    \E in \in Failures(SeqRange(CreateSteps) \cup {"after_model_change"}, {NoPk}) :
        /\ Idle
        /\ PKs \ db # {}
        /\ Finish("create_model", {}, in, CreateModelRun(Start, in), 0)

\* A request that calls update_model(form, model)
UpdateModel ==
    \E row \in db :
    \E in \in Failures(SeqRange(UpdateSteps) \cup {"after_model_change"}, {row}) :
        /\ Idle
        /\ Finish("update_model", {row}, in, UpdateModelRun(Start, row, in), 0)

\* A request that calls delete_model(model)
DeleteModel ==
    \E row \in db :
    \E in \in Failures(SeqRange(DeleteSteps) \cup {"after_model_delete"}, {row}) :
        /\ Idle
        /\ Finish("delete_model", {row}, in, DeleteModelRun(Start, row, in), 0)

\* A request that runs the bulk action action_delete(ids)
ActionDelete ==
    \E ids \in SUBSET PKs :
    \E in \in ActionDeleteFailures(ids \cap db) :
        /\ Idle
        /\ LET r == ActionDeleteRun(Start, ids, in)
           IN Finish("action_delete", ids, in, r, r.count)

\* The request ends: the host gives the borrowed session back, and what it
\* still holds is discarded
EndRequest ==
    /\ op # NoOp
    /\ op' = NoOp
    /\ sess' = CleanSession
    /\ UNCHANGED <<cfgIntegrity, cfgView, fastMassDelete, db>>
    /\ UNCHANGED notMutVars

(***************************************************************************)
(* Inline model fields: get_obj_pk, get_field_id,                          *)
(* InlineModelFormList.populate_obj, InlineModelOneToOneField.populate_obj *)
(***************************************************************************)
\* Python values: None, a str, an int (kept with its text)
PyNone == [t |-> "none", v |-> ""]
PyStr(str) == [t |-> "str", v |-> str]
PyInt(n) == [t |-> "int", v |-> ToString(n)]

\* text_type(x)
TextType(x) == IF x.t = "none" THEN "None" ELSE x.v

\* getattr(obj, pk) of a child: None until the row has been inserted
PkAttr(child) == IF child.pk = NoPk THEN PyNone ELSE PyInt(child.pk)

\* get_obj_pk(obj, pk), for a single-column primary key
GetObjPk(child) == TextType(PkAttr(child))

\* get_field_id(field), for a single-column primary key
GetFieldId(entry) == TextType(entry.pk)

ChildPKs == 1..MaxChildren

\* What a submitted row can hold: the hidden primary-key field, one data
\* field and the row's delete box (shown for rows that have a key only).
\* A row without a key brings the text "x", a row with a key the text "y".
EntryShapes ==
    {[pk |-> PyNone, val |-> "x", del |-> FALSE]}
    \cup {[pk |-> PyStr(k), val |-> "y", del |-> d] : k \in {"1", "2"}, d \in BOOLEAN}

EntryLists == SeqsUpTo(EntryShapes, MaxEntries)

\* pk_map = dict((get_obj_pk(v, self._pk), v) for v in values): for a key,
\* the position of the last child that has it, 0 when there is none
PkMap(values, key) ==
    LET at == {i \in 1..Len(values) : GetObjPk(values[i]) = key}
    IN IF at = {} THEN 0 ELSE CHOOSE i \in at : \A j \in at : j <= i

\* self.model(): a new child, with no key yet
NewChild(oid) == [oid |-> oid, pk |-> NoPk, val |-> ""]

\* field.populate_obj(model, None): the row's fields, but for the primary
\* key, are written onto the child
FieldPopulate(child, entry) == [child EXCEPT !.val = entry.val]

MaxOid(values) ==
    IF Len(values) = 0 THEN 0
    ELSE CHOOSE n \in {values[i].oid : i \in 1..Len(values)} :
            \A i \in 1..Len(values) : values[i].oid <= n

\* The body of the loop that populates a matched child even when the row is
\* marked for deletion
ListEntryStepNoShortCircuit(st, pkmap, entry) ==
    LET field_id == GetFieldId(entry)
        at == PkMap(pkmap, field_id)
        is_created == at = 0
        fresh == NewChild(MaxOid(st.values) + 1)
        model == IF is_created THEN fresh ELSE pkmap[at]
        appended == IF is_created THEN Append(st.values, fresh) ELSE st.values
        del == IF ~is_created /\ entry.del THEN Append(st.deleted, model.oid) ELSE st.deleted
    IN [values |-> [i \in 1..Len(appended) |->
                       IF appended[i].oid = model.oid
                       THEN FieldPopulate(appended[i], entry) ELSE appended[i]],
        deleted |-> del,
        populated |-> Append(st.populated, model.oid),
        hooks |-> Append(st.hooks, [oid |-> model.oid, is_created |-> is_created])]

\* The body of the loop that appends the child it works on in both
\* branches: a matched child is in the collection twice
ListEntryStepAppendAlways(st, pkmap, entry) ==
    LET field_id == GetFieldId(entry)
        at == PkMap(pkmap, field_id)
        is_created == at = 0
    IN IF ~is_created /\ entry.del
       THEN [st EXCEPT !.deleted = Append(@, pkmap[at].oid)]
       ELSE LET fresh == NewChild(MaxOid(st.values) + 1)
                model == IF is_created THEN fresh ELSE pkmap[at]
                appended == Append(st.values, model)
            IN [values |-> [i \in 1..Len(appended) |->
                               IF appended[i].oid = model.oid
                               THEN FieldPopulate(appended[i], entry) ELSE appended[i]],
                deleted |-> st.deleted,
                populated |-> Append(st.populated, model.oid),
                hooks |-> Append(st.hooks, [oid |-> model.oid, is_created |-> is_created])]

\* The body of the loop of fields.py:360-376 for one entry; `pkmap` is the
\* collection as it was when pk_map was built
ListEntryStep(st, pkmap, entry) ==
    LET field_id == GetFieldId(entry)
        at == PkMap(pkmap, field_id)
        is_created == at = 0
    IN IF ~is_created /\ entry.del
       THEN [st EXCEPT !.deleted = Append(@, pkmap[at].oid)]
       ELSE LET fresh == NewChild(MaxOid(st.values) + 1)
                model == IF is_created THEN fresh ELSE pkmap[at]
                appended == IF is_created THEN Append(st.values, fresh) ELSE st.values
            IN [values |-> [i \in 1..Len(appended) |->
                               IF appended[i].oid = model.oid
                               THEN FieldPopulate(appended[i], entry) ELSE appended[i]],
                deleted |-> st.deleted,
                populated |-> Append(st.populated, model.oid),
                hooks |-> Append(st.hooks, [oid |-> model.oid, is_created |-> is_created])]

RECURSIVE ListLoop(_, _, _, _)
ListLoop(st, pkmap, entries, i) ==
    IF i > Len(entries) THEN st
    ELSE ListLoop(ListEntryStep(st, pkmap, entries[i]), pkmap, entries, i + 1)

\* InlineModelFormList.populate_obj(obj, name), the collection being a list
ListPopulateObj(values, deleted, entries) ==
    ListLoop([values |-> values, deleted |-> deleted, populated |-> <<>>, hooks |-> <<>>],
             values, entries, 1)

NoListLog == [entries |-> <<>>, populated |-> <<>>, hooks |-> <<>>, before |-> <<>>,
              called |-> FALSE]

ListInit ==
    /\ children = <<>>
    /\ sdeleted = <<>>
    /\ listLog = NoListLog

\* The parent's form is populated: populate_obj runs on the inline list
PopulateList ==
    \E entries \in EntryLists :
        /\ ~listLog.called
        /\ LET r == ListPopulateObj(children, sdeleted, entries)
           IN /\ children' = r.values
              /\ sdeleted' = r.deleted
              /\ listLog' = [entries |-> entries, populated |-> r.populated,
                             hooks |-> r.hooks, before |-> children, called |-> TRUE]
        /\ UNCHANGED notListVars

\* What the unit of work holds for the parent: the collection without the
\* objects handed to session.delete
Kept(values, deleted) ==
    SelectSeq(values, LAMBDA c : c.oid \notin SeqRange(deleted))

\* The keys the database gives to the new rows: the smallest ones not in use
RECURSIVE AssignKeys(_, _, _)
AssignKeys(values, i, used) ==
    IF i > Len(values) THEN values
    ELSE IF values[i].pk # NoPk THEN AssignKeys(values, i + 1, used)
    ELSE LET k == CHOOSE n \in ChildPKs \ used : \A m \in ChildPKs \ used : n <= m
         IN AssignKeys([values EXCEPT ![i].pk = k], i + 1, used \cup {k})

RECURSIVE ByKey(_)
ByKey(S) ==
    IF S = {} THEN <<>>
    ELSE LET c == CHOOSE x \in S : \A y \in S : x.pk <= y.pk
         IN <<c>> \o ByKey(S \ {c})

\* The collection as loaded from the table: in key order, every object
\* standing for its row
Reloaded(values) ==
    LET sorted == ByKey(SeqRange(values))
    IN [i \in 1..Len(sorted) |-> [sorted[i] EXCEPT !.oid = sorted[i].pk]]

\* session.commit() of the parent's request: deleted rows go, new rows get
\* their keys, and the collection is loaded again from the table
CommitList ==
    /\ listLog.called
    /\ LET kept == Kept(children, sdeleted)
       IN /\ Len(kept) <= MaxChildren
          /\ children' = Reloaded(
                 AssignKeys(kept, 1, {kept[i].pk : i \in 1..Len(kept)} \ {NoPk}))
    /\ sdeleted' = <<>>
    /\ listLog' = NoListLog
    /\ UNCHANGED notListVars

\* session.rollback() of the parent's request: the collection is as before
RollbackList ==
    /\ listLog.called
    /\ children' = listLog.before
    /\ sdeleted' = <<>>
    /\ listLog' = NoListLog
    /\ UNCHANGED notListVars

NextInlineList ==
    \/ PopulateList
    \/ CommitList
    \/ RollbackList

\* The fields of the one-to-one sub-form, in the order of form._fields:
\* the hidden primary-key field and two data fields
OneFormFields == <<"id", "f1", "f2">>

\* get_primary_key(model) gives a name for a single-column primary key and
\* a tuple of names for a composite one
PkName(name) == [t |-> "str", names |-> <<name>>]
PkTuple(names) == [t |-> "tuple", names |-> names]

\* self._pk of the two child models: one keyed by id, one keyed by (id, f1)
OnePks == {PkName("id"), PkTuple(<<"id", "f1">>)}

\* name != self._pk: a name differs from every tuple, and from another name
NameIsNotPk(name, pk) == ~(pk.t = "str" /\ pk.names[1] = name)

\* What a data field can hold: None, "", a text, a number
FieldData == {PyNone, PyStr(""), PyStr("x"), PyInt(0)}

OneForms == [id : {PyNone, PyStr("1")}, f1 : FieldData, f2 : FieldData]

\* _looks_empty, taking "" alone as empty
LooksEmptyStrOnly(data) == data.t = "str" /\ data.v = ""

\* InlineModelOneToOneField._looks_empty(field.data)
LooksEmpty(data) ==
    IF data.t = "none" THEN TRUE
    ELSE IF data.t = "str" /\ data.v = "" THEN TRUE
    ELSE FALSE

\* self.model(): a new child, no key and no attribute set
NewOne == [pk |-> NoPk, f1 |-> PyNone, f2 |-> PyNone]

\* The key a hidden id field carries: none, or the key of row 1
KeyOf(data) == IF data.t = "none" THEN NoPk ELSE 1

\* wtforms Field.populate_obj(obj, name): setattr(obj, name, field.data);
\* the id column is the attribute pk of the child
SetField(child, name, data) ==
    IF name = "id" THEN [child EXCEPT !.pk = KeyOf(data)]
    ELSE [child EXCEPT ![name] = data]

\* The loop of fields.py:427-432 from field i on
RECURSIVE OneLoop(_, _, _, _)
OneLoop(st, pk, form, i) ==
    IF i > Len(OneFormFields) THEN st
    ELSE LET name == OneFormFields[i]
             m == IF NameIsNotPk(name, pk)
                  THEN SetField(st.model, name, form[name])
                  ELSE st.model
             e == IF st.empty /\ ~LooksEmpty(form[name]) THEN FALSE ELSE st.empty
         IN OneLoop([model |-> m, empty |-> e], pk, form, i + 1)

\* InlineModelOneToOneField.populate_obj(model, field_name); `attr` is
\* getattr(model, field_name): <<>> for none, <<child>> for a child
OnePopulateObj(attr, pk, form) ==
    LET is_created == attr = <<>>
        inline_model == IF is_created THEN NewOne ELSE attr[1]
        r == OneLoop([model |-> inline_model, empty |-> TRUE], pk, form, 1)
    IN IF r.empty
       THEN [attr |-> IF is_created THEN <<>> ELSE <<r.model>>, hooks |-> <<>>]
       ELSE [attr |-> <<r.model>>, hooks |-> <<is_created>>]

NoOneLog == [form |-> [id |-> PyNone, f1 |-> PyNone, f2 |-> PyNone], hooks |-> <<>>,
             before |-> <<>>, called |-> FALSE]

OneInit ==
    /\ onePk = PkName("id")
    /\ one = <<>>
    /\ oneLog = NoOneLog

\* The inline field is built for either child model
OneInitModels ==
    /\ onePk \in OnePks
    /\ one = <<>>
    /\ oneLog = NoOneLog

\* The parent's form is populated: populate_obj runs on the one-to-one field
PopulateOne ==
    \E form \in OneForms :
        /\ ~oneLog.called
        /\ LET r == OnePopulateObj(one, onePk, form)
           IN /\ one' = r.attr
              /\ oneLog' = [form |-> form, hooks |-> r.hooks, before |-> one,
                            called |-> TRUE]
        /\ UNCHANGED <<onePk, notOneVars>>

\* session.commit() of the parent's request: a new child gets its key
CommitOne ==
    /\ oneLog.called
    /\ one' = IF one # <<>> /\ one[1].pk = NoPk THEN <<[one[1] EXCEPT !.pk = 1]>> ELSE one
    /\ oneLog' = NoOneLog
    /\ UNCHANGED <<onePk, notOneVars>>

\* session.rollback() of the parent's request: the child is as before
RollbackOne ==
    /\ oneLog.called
    /\ one' = oneLog.before
    /\ oneLog' = NoOneLog
    /\ UNCHANGED <<onePk, notOneVars>>

NextInlineOne ==
    \/ PopulateOne
    \/ CommitOne
    \/ RollbackOne

(***************************************************************************)
(* Search: ModelView._apply_search                                         *)
(***************************************************************************)
\* Strings are sequences of characters. The characters a search string and
\* a column value are made of: letters in both cases, a digit, the space,
\* the tab, and the two operators of parse_like_term.
Chars == {"a", "A", "b", "1", " ", "\t", "^", "="}

SearchStrings == SeqsUpTo(Chars, MaxSearchLen)

\* str.split(sep) with a separator: cuts at every occurrence of sep and
\* keeps the empty pieces
RECURSIVE SplitFrom(_, _, _, _)
SplitFrom(str, sep, i, piece) ==
    IF i > Len(str) THEN <<piece>>
    ELSE IF str[i] = sep
         THEN <<piece>> \o SplitFrom(str, sep, i + 1, <<>>)
         ELSE SplitFrom(str, sep, i + 1, Append(piece, str[i]))

Split(str, sep) == SplitFrom(str, sep, 1, <<>>)

\* tools.parse_like_term(term): "^x" is a prefix match, "=x" an exact match,
\* anything else a substring match; the result is a LIKE pattern
ParseLikeTerm(term) ==
    IF term # <<>> /\ term[1] = "^" THEN Append(Tail(term), "%")
    ELSE IF term # <<>> /\ term[1] = "=" THEN Tail(term)
    ELSE <<"%">> \o term \o <<"%">>

\* The searchable columns with their join paths, as init_search leaves them
\* in _search_fields: two columns of the model, one of them an integer, and
\* a column of the model behind the relationship rel_a
SearchFields ==
    <<[field |-> "name", path |-> <<>>],
      [field |-> "code", path |-> <<>>],
      [field |-> "title", path |-> <<"rel_a">>]>>

\* column = field if alias is None else getattr(alias, field.key), then
\* sql_cast(column, Unicode).ilike(stmt)
Criterion(field, alias, stmt) == [field |-> field, alias |-> alias, stmt |-> stmt]

\* None, as the value of page, page_size and count, and of a query's limit
\* and offset when limit() resp. offset() was not called
Unset == -1

\* A new query: no join, no filter, no order, no limit, no offset, no option
NewQuery ==
    [joins |-> <<>>, where |-> <<>>, order |-> <<>>, limit |-> Unset,
     offset |-> Unset, options |-> <<>>]

\* One iteration of the loop over _search_fields (view.py:1109-1130)
SearchFieldStep(st, sf, stmt) ==
    LET r == ApplyPathJoins(st.query.joins, st.joins, sf.path, FALSE, st.nalias)
        c == IF st.count # <<>>
             THEN ApplyPathJoins(st.count[1].joins, st.cjoins, sf.path, FALSE, r.nalias)
             ELSE [query |-> <<>>, joins |-> st.cjoins, last |-> NoAlias, nalias |-> r.nalias]
    IN [query |-> [st.query EXCEPT !.joins = r.query],
        count |-> IF st.count # <<>>
                  THEN <<[st.count[1] EXCEPT !.joins = c.query]>>
                  ELSE <<>>,
        joins |-> r.joins,
        cjoins |-> c.joins,
        nalias |-> c.nalias,
        filter_stmt |-> Append(st.filter_stmt, Criterion(sf.field, r.last, stmt)),
        count_filter_stmt |-> Append(st.count_filter_stmt, Criterion(sf.field, c.last, stmt))]

RECURSIVE SearchFieldLoop(_, _, _)
SearchFieldLoop(st, stmt, i) ==
    IF i > Len(SearchFields) THEN st
    ELSE SearchFieldLoop(SearchFieldStep(st, SearchFields[i], stmt), stmt, i + 1)

\* A variant that adds one conjunct per searchable field instead of one
\* disjunction per term
SearchTermStepAndFields(st, term) ==
    IF term = <<>> THEN st
    ELSE LET stmt == ParseLikeTerm(term)
             r == SearchFieldLoop([st EXCEPT !.filter_stmt = <<>>,
                                             !.count_filter_stmt = <<>>], stmt, 1)
             each(fs) == [i \in 1..Len(fs) |-> <<fs[i]>>]
         IN [r EXCEPT !.query.where = @ \o each(r.filter_stmt),
                      !.count = IF r.count # <<>>
                                THEN <<[r.count[1] EXCEPT
                                          !.where = @ \o each(r.count_filter_stmt)]>>
                                ELSE <<>>]

\* One iteration of the loop over the terms (view.py:1100-1135)
SearchTermStep(st, term) ==
    IF term = <<>> THEN st
    ELSE LET stmt == ParseLikeTerm(term)
             r == SearchFieldLoop([st EXCEPT !.filter_stmt = <<>>,
                                             !.count_filter_stmt = <<>>], stmt, 1)
         IN [r EXCEPT !.query.where = Append(@, r.filter_stmt),
                      !.count = IF r.count # <<>>
                                THEN <<[r.count[1] EXCEPT
                                          !.where = Append(@, r.count_filter_stmt)]>>
                                ELSE <<>>]

RECURSIVE SearchTermLoop(_, _, _)
SearchTermLoop(st, terms, i) ==
    IF i > Len(terms) THEN st
    ELSE SearchTermLoop(SearchTermStep(st, terms[i]), terms, i + 1)

\* _apply_search(query, count_query, joins, count_joins, search); count_query
\* is <<>> for None, <<q>> otherwise
ApplySearch(q, count_query, js, count_joins, search) ==
    LET terms == Split(search, " ")
        r == SearchTermLoop([query |-> q, count |-> count_query,
                             joins |-> js, cjoins |-> count_joins, nalias |-> 0,
                             filter_stmt |-> <<>>, count_filter_stmt |-> <<>>],
                            terms, 1)
    IN [query |-> r.query, count_query |-> r.count,
        joins |-> r.joins, count_joins |-> r.cjoins]

\* ---- what the database answers -------------------------------------------
\* NULL, and the rows of the table: name is a text column, code an integer
\* column, title the text column of the row related through rel_a, NULL
\* where there is no related row
Null == [t |-> "null", v |-> <<>>]
Text(str) == [t |-> "text", v |-> str]
Number(n) == [t |-> "integer", v |-> n]

TableRows ==
    [name : {Text(<<"a">>), Text(<<"A", "b">>), Text(<<"a", "\t", "b">>)},
     code : {Number(1), Number(12)},
     title : {Null, Text(<<"b">>), Text(<<"1">>)}]

DigitChars == <<"0", "1", "2", "3", "4", "5", "6", "7", "8", "9">>

RECURSIVE Digits(_)
Digits(n) ==
    IF n < 10 THEN <<DigitChars[n + 1]>>
    ELSE Append(Digits(n \div 10), DigitChars[(n % 10) + 1])

\* CAST(column AS Unicode): text is kept, an integer becomes its decimal
\* digits, NULL stays NULL
CastUnicode(val) ==
    IF val.t = "integer" THEN Text(Digits(val.v)) ELSE val

Lower(c) == IF c = "A" THEN "a" ELSE c

\* value LIKE pattern, compared without case: % stands for any run of
\* characters
RECURSIVE LikeFrom(_, _, _, _)
LikeFrom(v, pat, i, j) ==
    IF j > Len(pat) THEN i > Len(v)
    ELSE IF pat[j] = "%"
         THEN \E k \in i..(Len(v) + 1) : LikeFrom(v, pat, k, j + 1)
         ELSE /\ i <= Len(v)
              /\ Lower(v[i]) = Lower(pat[j])
              /\ LikeFrom(v, pat, i + 1, j + 1)

ILike(val, pat) == val.t = "text" /\ LikeFrom(val.v, pat, 1, 1)

\* The value a criterion's column has in a row: the row's own column, or
\* the column of the row joined under the alias
ColumnValue(row, crit) == row[crit.field]

\* A criterion is an ilike of the column cast to text, or, when it carries a
\* value, the column compared with that value
CriterionHolds(row, crit) ==
    IF "value" \in DOMAIN crit
    THEN ColumnValue(row, crit) = crit.value
    ELSE ILike(CastUnicode(ColumnValue(row, crit)), crit.stmt)

\* The rows a query returns: an inner join drops the rows without a related
\* row, an outer join keeps them; every filter() conjunct must hold, and a
\* conjunct is the or_ of its criteria
QueryRows(q) ==
    {row \in TableRows :
        /\ \A i \in 1..Len(q.joins) : q.joins[i].fn = "join" => row.title # Null
        /\ \A i \in 1..Len(q.where) :
              \E j \in 1..Len(q.where[i]) : CriterionHolds(row, q.where[i][j])}

NoSearch ==
    [called |-> FALSE, search |-> <<>>, query |-> NewQuery, count_query |-> <<>>,
     joins |-> <<>>, count_joins |-> <<>>]

SearchInit ==
    /\ simpleListPager \in BOOLEAN
    /\ srch = NoSearch

SearchParked ==
    /\ simpleListPager = FALSE
    /\ srch = NoSearch

\* get_list builds a new query, a count query unless simple_list_pager is
\* set, and two empty joins dicts, and hands them to _apply_search
\* (view.py:1242-1263)
ApplySearchCall(search) ==
    LET count_query == IF simpleListPager THEN <<>> ELSE <<NewQuery>>
        r == ApplySearch(NewQuery, count_query, <<>>, <<>>, search)
    IN /\ ~srch.called
       /\ srch' = [called |-> TRUE, search |-> search, query |-> r.query,
                   count_query |-> r.count_query, joins |-> r.joins,
                   count_joins |-> r.count_joins]
       /\ UNCHANGED simpleListPager
       /\ UNCHANGED notSearchVars

SearchAny == \E search \in SearchStrings : ApplySearchCall(search)

\* The request is over; its queries are dropped
EndSearch ==
    /\ srch.called
    /\ srch' = NoSearch
    /\ UNCHANGED simpleListPager
    /\ UNCHANGED notSearchVars

NextSearch ==
    \/ SearchAny
    \/ EndSearch

(***************************************************************************)
(* Listing: ModelView._apply_filters, _order_by, _apply_sorting,           *)
(* _apply_pagination, get_list                                             *)
(***************************************************************************)
\* The view's filters, as scaffold_filters leaves them in _filters, with the
\* join path _filter_joins holds for each: an integer-equals filter on a
\* column of the model, a like filter on a column behind rel_a, and a custom
\* filter that is no BaseSQLAFilter and whose apply takes no alias
Filters ==
    <<[kind |-> "sqla", type |-> "int_equal", column |-> "code", path |-> <<>>],
      [kind |-> "sqla", type |-> "like", column |-> "title", path |-> <<"rel_a">>],
      [kind |-> "custom", type |-> "equal", column |-> "name", path |-> <<>>]>>

\* isinstance(flt, sqla_filters.BaseSQLAFilter)
IsBaseSQLAFilter(flt) == flt.kind = "sqla"

\* The apply method takes (query, value, alias)
TakesAlias(flt) == flt.kind = "sqla"

IsDigits(str) ==
    /\ str # <<>>
    /\ \A i \in 1..Len(str) : \E d \in 1..10 : DigitChars[d] = str[i]

DigitValue(c) == (CHOOSE d \in 1..10 : DigitChars[d] = c) - 1

RECURSIVE ParseInt(_)
ParseInt(str) ==
    IF str = <<>> THEN 0
    ELSE 10 * ParseInt(SubSeq(str, 1, Len(str) - 1)) + DigitValue(str[Len(str)])

\* flt.clean(value): the integer filter converts the text to an integer and
\* raises ValueError when it is none; the other filters keep the text
FilterClean(flt, value) ==
    IF flt.type = "int_equal"
    THEN IF IsDigits(value)
         THEN [exc |-> "none", value |-> Number(ParseInt(value))]
         ELSE [exc |-> "ValueError", value |-> Null]
    ELSE [exc |-> "none", value |-> Text(value)]

\* A criterion that compares the column with a value
FilterCriterion(field, alias, value) == [field |-> field, alias |-> alias, value |-> value]

\* flt.apply(query, value, alias): query.filter(<column of alias> ...)
FilterApply(q, flt, clean_value, alias) ==
    IF flt.type = "like"
    THEN [q EXCEPT !.where =
            Append(@, <<Criterion(flt.column, alias, ParseLikeTerm(clean_value.v))>>)]
    ELSE [q EXCEPT !.where =
            Append(@, <<FilterCriterion(flt.column, alias, clean_value)>>)]

\* A variant that joins with inner joins
JoinQueryInner(st, path) ==
    LET r == ApplyPathJoins(st.query.joins, st.joins, path, TRUE, st.nalias)
    IN [st EXCEPT !.query.joins = r.query, !.joins = r.joins,
                  !.nalias = r.nalias, !.alias = r.last]

\* _apply_path_joins(query, joins, path, inner_join=False) on the listing
\* query; the alias it returns is kept in `alias`
JoinQuery(st, path) ==
    LET r == ApplyPathJoins(st.query.joins, st.joins, path, FALSE, st.nalias)
    IN [st EXCEPT !.query.joins = r.query, !.joins = r.joins,
                  !.nalias = r.nalias, !.alias = r.last]

\* A variant that leaves the count query without the join path
JoinCountSkip(st, path) == st

\* if count_query is not None: the same on the count query and count_joins
JoinCount(st, path) ==
    IF st.count # <<>>
    THEN LET c == ApplyPathJoins(st.count[1].joins, st.cjoins, path, FALSE, st.nalias)
         IN [st EXCEPT !.count = <<[st.count[1] EXCEPT !.joins = c.query]>>,
                       !.cjoins = c.joins, !.nalias = c.nalias, !.count_alias = c.last]
    ELSE st

\* clean_value = flt.clean(value), then flt.apply on the listing query and,
\* when there is one, on the count query (view.py:1169-1193); a filter whose
\* apply takes no alias is called again without it, with a warning
FilterCleanApply(st, flt, arg) ==
    LET cleaned == FilterClean(flt, arg.value)
    IN IF cleaned.exc # "none"
       THEN [st EXCEPT !.cleaned = Append(@, arg.idx), !.exc = cleaned.exc]
       ELSE [st EXCEPT
               !.cleaned = Append(@, arg.idx),
               !.query = FilterApply(@, flt, cleaned.value,
                                     IF TakesAlias(flt) THEN st.alias ELSE NoAlias),
               !.count = IF st.count # <<>>
                         THEN <<FilterApply(@[1], flt, cleaned.value,
                                            IF TakesAlias(flt) THEN st.count_alias
                                            ELSE NoAlias)>>
                         ELSE <<>>,
               !.warned = IF TakesAlias(flt) THEN @ ELSE Append(@, arg.idx)]

\* The joins of one iteration (view.py:1150-1166)
FilterJoins(st, flt) ==
    IF IsBaseSQLAFilter(flt)
    THEN JoinCount(JoinQuery([st EXCEPT !.alias = NoAlias, !.count_alias = NoAlias],
                             flt.path), flt.path)
    ELSE [st EXCEPT !.alias = NoAlias, !.count_alias = NoAlias]

\* One iteration of the loop of _apply_filters (view.py:1147-1193) for the
\* triple (idx, _, value)
FilterStep(st, arg) ==
    FilterCleanApply(FilterJoins(st, Filters[arg.idx + 1]), Filters[arg.idx + 1], arg)

\* for idx, _flt_name, value in filters: up to the first iteration that raises
RECURSIVE FilterLoop(_, _, _)
FilterLoop(st, filters, i) ==
    IF i > Len(filters) \/ st.exc # "none" THEN st
    ELSE FilterLoop(FilterStep(st, filters[i]), filters, i + 1)

\* _apply_filters(query, count_query, joins, count_joins, filters)
ApplyFilters(st, filters) == FilterLoop(st, filters, 1)

\* The sortable columns with their join paths, as get_sortable_columns
\* leaves them in _sortable_columns and _sortable_joins: a column of the
\* model, a column behind rel_a, and a composite of the two kinds
NoColumn == "None"

SortableColumns ==
    [name |-> [composite |-> FALSE, parts |-> <<[field |-> "name", path |-> <<>>]>>],
     title |-> [composite |-> FALSE,
                parts |-> <<[field |-> "title", path |-> <<"rel_a">>]>>],
     combo |-> [composite |-> TRUE,
                parts |-> <<[field |-> "title", path |-> <<"rel_a">>],
                            [field |-> "code", path |-> <<>>]>>]]

\* What the caller can name as the sort column: nothing, a sortable column,
\* or a name that is no sortable column
SortColumnArgs == {NoColumn, "name", "title", "combo", "bogus"}

\* _get_default_order(): the (field, path, descending) entries of the view's
\* default order list
DefaultOrder ==
    <<[field |-> "title", path |-> <<"rel_a">>, desc |-> TRUE],
      [field |-> "code", path |-> <<>>, desc |-> FALSE]>>

OrderClause(field, alias, sort_desc) == [field |-> field, alias |-> alias, desc |-> sort_desc]

\* _order_by(query, joins, sort_joins, sort_field, sort_desc)
OrderBy(st, sort_joins, sort_field, sort_desc) ==
    IF sort_field # NoColumn
    THEN LET j == JoinQuery(st, sort_joins)
         IN [j EXCEPT !.query.order = Append(@, OrderClause(sort_field, j.alias, sort_desc))]
    ELSE st

RECURSIVE SortParts(_, _, _, _)
SortParts(st, parts, sort_desc, i) ==
    IF i > Len(parts) THEN st
    ELSE SortParts(OrderBy(st, parts[i].path, parts[i].field, sort_desc),
                   parts, sort_desc, i + 1)

RECURSIVE SortDefault(_, _)
SortDefault(st, i) ==
    IF i > Len(DefaultOrder) THEN st
    ELSE SortDefault(OrderBy(st, DefaultOrder[i].path, DefaultOrder[i].field,
                             DefaultOrder[i].desc), i + 1)

\* A variant that applies the default order after the caller's sort column
ApplySortingDefaultToo(st, sort_column, sort_desc) ==
    IF sort_column # NoColumn
    THEN IF sort_column \in DOMAIN SortableColumns
         THEN SortDefault(SortParts(st, SortableColumns[sort_column].parts, sort_desc, 1), 1)
         ELSE st
    ELSE SortDefault(st, 1)

\* A variant that falls back to the default order for a column that is not
\* sortable
ApplySortingFallback(st, sort_column, sort_desc) ==
    IF sort_column # NoColumn /\ sort_column \in DOMAIN SortableColumns
    THEN SortParts(st, SortableColumns[sort_column].parts, sort_desc, 1)
    ELSE SortDefault(st, 1)

\* _apply_sorting(query, joins, sort_column, sort_desc)
ApplySorting(st, sort_column, sort_desc) ==
    IF sort_column # NoColumn
    THEN IF sort_column \in DOMAIN SortableColumns
         THEN SortParts(st, SortableColumns[sort_column].parts, sort_desc, 1)
         ELSE st
    ELSE SortDefault(st, 1)

\* A variant in which a page size of None disables the limit
ApplyPaginationNoDefault(q, page, page_size_arg, view_page_size) ==
    LET page_size == IF page_size_arg = Unset THEN 0 ELSE page_size_arg
        limited == IF page_size # 0 THEN [q EXCEPT !.limit = page_size] ELSE q
    IN IF page # Unset /\ page # 0 /\ page_size # 0
       THEN [limited EXCEPT !.offset = page * page_size]
       ELSE limited

\* _apply_pagination(query, page, page_size); False counts as 0
ApplyPagination(q, page, page_size_arg, view_page_size) ==
    LET page_size == IF page_size_arg = Unset THEN view_page_size ELSE page_size_arg
        limited == IF page_size # 0 THEN [q EXCEPT !.limit = page_size] ELSE q
    IN IF page # Unset /\ page # 0 /\ page_size # 0
       THEN [limited EXCEPT !.offset = page * page_size]
       ELSE limited

\* The relationships loaded with the rows: self._auto_joins
AutoJoins == <<"rel_a">>

\* The highest alias a joins dict holds
MaxAlias(js) ==
    IF DOMAIN js = {} THEN 0
    ELSE CHOOSE n \in {js[k] : k \in DOMAIN js} : \A k \in DOMAIN js : js[k] <= n

\* count_query.scalar(): the number of rows the count query selects
Scalar(q) == Cardinality(QueryRows(q))

\* query.all(): the number of rows the query hands back, its limit and
\* offset applied
NumRows(q) ==
    LET total == Cardinality(QueryRows(q))
        skip == IF q.offset = Unset THEN 0 ELSE q.offset
        rest == IF total > skip THEN total - skip ELSE 0
    IN IF q.limit # Unset /\ q.limit < rest THEN q.limit ELSE rest

\* The arguments of get_list
Pages == {Unset} \cup 0..MaxPage
PageSizes == {Unset} \cup 0..MaxPageSize
ViewPageSizes == {0, 3}

\* search: None or empty, one term, two terms
SearchArgs == {<<>>, <<"a">>, <<"b", " ", "1">>}

FilterArg(idx, value) == [idx |-> idx, value |-> value]

\* filters: None or empty, one filter, two filters, with values the integer
\* filter can and cannot clean
FilterArgs ==
    {<<>>,
     <<FilterArg(0, <<"1">>)>>,
     <<FilterArg(0, <<"a">>)>>,
     <<FilterArg(1, <<"b">>)>>,
     <<FilterArg(2, <<"a">>)>>,
     <<FilterArg(1, <<"b">>), FilterArg(0, <<"1", "2">>)>>,
     <<FilterArg(1, <<"b">>), FilterArg(1, <<"1">>)>>,
     <<FilterArg(0, <<"a">>), FilterArg(1, <<"b">>)>>,
     <<FilterArg(2, <<"a">>), FilterArg(0, <<"a">>)>>}

\* The calls made: every page and page size with a few of the other
\* arguments, and every search, filter list and sort column with a few pages
GetListArgs ==
    [page : Pages, sort_column : {NoColumn, "title"}, sort_desc : {FALSE},
     search : {<<>>, <<"a">>}, filters : {<<>>, <<FilterArg(1, <<"b">>)>>},
     execute : BOOLEAN, page_size : PageSizes]
    \cup
    [page : {Unset, 1}, sort_column : SortColumnArgs, sort_desc : BOOLEAN,
     search : SearchArgs, filters : FilterArgs, execute : {TRUE},
     page_size : {Unset}]

\* A variant that builds the count query whatever simple_list_pager says
ListStartAlwaysCount(simple_list_pager) ==
    [query |-> NewQuery,
     count |-> <<NewQuery>>,
     joins |-> <<>>, cjoins |-> <<>>, nalias |-> 0,
     alias |-> NoAlias, count_alias |-> NoAlias,
     exc |-> "none", cleaned |-> <<>>, warned |-> <<>>,
     counted |-> FALSE, total |-> Unset, executed |-> FALSE, rows |-> Unset]

\* get_list, step by step. The queries and joins dicts it starts from
\* (view.py:1245-1250)
ListStart(simple_list_pager) ==
    [query |-> NewQuery,
     count |-> IF simple_list_pager THEN <<>> ELSE <<NewQuery>>,
     joins |-> <<>>, cjoins |-> <<>>, nalias |-> 0,
     alias |-> NoAlias, count_alias |-> NoAlias,
     exc |-> "none", cleaned |-> <<>>, warned |-> <<>>,
     counted |-> FALSE, total |-> Unset, executed |-> FALSE, rows |-> Unset]

\* if self._search_supported and search (view.py:1260-1263)
ListSearch(st, search) ==
    IF Len(SearchFields) > 0 /\ search # <<>>
    THEN LET r == ApplySearch(st.query, st.count, st.joins, st.cjoins, search)
         IN [st EXCEPT !.query = r.query, !.count = r.count_query,
                       !.joins = r.joins, !.cjoins = r.count_joins,
                       !.nalias = IF MaxAlias(r.joins) > MaxAlias(r.count_joins)
                                  THEN MaxAlias(r.joins)
                                  ELSE MaxAlias(r.count_joins)]
    ELSE st

\* if filters and self._filters (view.py:1266-1269)
ListFilters(st, filters) ==
    IF filters # <<>> /\ Len(Filters) > 0 THEN ApplyFilters(st, filters) ELSE st

\* count = count_query.scalar() if count_query else None (view.py:1272)
ListCount(st) ==
    IF st.count # <<>>
    THEN [st EXCEPT !.counted = TRUE, !.total = Scalar(st.count[1])]
    ELSE st

\* query.options(joinedload(j)) for j in self._auto_joins (view.py:1275-1276)
ListOptions(st) == [st EXCEPT !.query.options = @ \o AutoJoins]

\* query = self._apply_pagination(query, page, page_size) (view.py:1282)
ListPagination(st, page, page_size, view_page_size) ==
    [st EXCEPT !.query = ApplyPagination(@, page, page_size, view_page_size)]

\* if execute: query = query.all() (view.py:1285-1286)
ListExecute(st, execute) ==
    IF execute THEN [st EXCEPT !.executed = TRUE, !.rows = NumRows(st.query)] ELSE st

\* What get_list hands back, or the exception it lets through
ListReturn(st) ==
    [result |-> IF st.exc # "none" THEN "raised" ELSE "returned",
     exc |-> st.exc, count |-> st.total, counted |-> st.counted,
     executed |-> st.executed, rows |-> st.rows, query |-> st.query,
     count_query |-> st.count, joins |-> st.joins, count_joins |-> st.cjoins,
     cleaned |-> st.cleaned, warned |-> st.warned]

\* The statements after the filters (view.py:1271-1288)
ListTail(st, args, view_page_size) ==
    IF st.exc # "none" THEN st
    ELSE ListExecute(
            ListPagination(
               ApplySorting(ListOptions(ListCount(st)), args.sort_column, args.sort_desc),
               args.page, args.page_size, view_page_size),
            args.execute)

\* get_list(page, sort_column, sort_desc, search, filters, execute, page_size)
GetListRun(args, simple_list_pager, view_page_size) ==
    ListReturn(
        ListTail(ListFilters(ListSearch(ListStart(simple_list_pager), args.search),
                             args.filters),
                 args, view_page_size))

NoList == [called |-> FALSE]

GetListInit ==
    /\ viewPageSize \in ViewPageSizes
    /\ lst = NoList

GetListParked ==
    /\ viewPageSize = 0
    /\ lst = NoList

\* One request that calls get_list
GetListCall(args) ==
    /\ ~lst.called
    /\ lst' = [called |-> TRUE, args |-> args,
               out |-> GetListRun(args, simpleListPager, viewPageSize)]
    /\ UNCHANGED <<simpleListPager, viewPageSize>>
    /\ UNCHANGED notGetListVars

GetList == \E args \in GetListArgs : GetListCall(args)

\* The request is over; its queries and joins dicts are dropped
EndGetList ==
    /\ lst.called
    /\ lst' = NoList
    /\ UNCHANGED <<simpleListPager, viewPageSize>>
    /\ UNCHANGED notGetListVars

NextGetList ==
    \/ GetList
    \/ EndGetList


(***************************************************************************)
(* View registration: ModelView.__init__, get_sortable_columns,            *)
(* init_search, scaffold_filters                                           *)
(***************************************************************************)
\* tools.get_field_with_path(model, name): the attribute a configured name
\* stands for and the join path to it. An attribute is a column attribute
\* (with the number of columns behind it), a relationship, a hybrid
\* property, or None when the name resolves to nothing.
GetFieldWithPath(name) ==
    CASE name = "name" -> [attr |-> "column", columns |-> 1, path |-> <<>>]
      [] name = "code" -> [attr |-> "column", columns |-> 1, path |-> <<>>]
      [] name = "rel_a.title" -> [attr |-> "column", columns |-> 1, path |-> <<"rel_a">>]
      [] name = "tbl_t.col" -> [attr |-> "column", columns |-> 1, path |-> <<"tbl_t">>]
      [] name = "rel_a" -> [attr |-> "relationship", columns |-> 0, path |-> <<"rel_a">>]
      [] name = "hybrid" -> [attr |-> "hybrid", columns |-> 0, path |-> <<>>]
      [] name = "multi" -> [attr |-> "column", columns |-> 2, path |-> <<>>]
      [] OTHER -> [attr |-> "None", columns |-> 0, path |-> <<>>]

\* hasattr(item, "property"): the item is a relationship attribute
HasProperty(item) == item \in Relations

\* column_searchable_list, column_filters, column_sortable_list: the names a
\* view can be configured with. A sortable entry is one name, or a composite
\* (a tuple of names).
SearchNames == {"name", "rel_a.title", "nosuch"}
FilterNames == {"code", "rel_a.title", "rel_a", "hybrid", "multi", "nosuch"}
SortEntries ==
    {[composite |-> FALSE, names |-> <<"name">>],
     [composite |-> FALSE, names |-> <<"rel_a.title">>],
     [composite |-> FALSE, names |-> <<"tbl_t.col">>],
     [composite |-> TRUE, names |-> <<"rel_a.title", "name">>],
     [composite |-> TRUE, names |-> <<"tbl_t.col", "name">>]}

SortLists == SeqsUpTo(SortEntries, MaxNames)
SearchLists == SeqsUpTo(SearchNames, MaxNames)
FilterLists == SeqsUpTo(FilterNames, MaxNames)

\* The configurations explored: at most MaxNames + 1 names in all
ViewConfigs ==
    {config \in [has_pk : BOOLEAN,
                 column_sortable_list : SortLists,
                 column_searchable_list : SearchLists,
                 column_filters : FilterLists] :
        Len(config.column_sortable_list) + Len(config.column_searchable_list)
            + Len(config.column_filters) <= MaxNames + 1}

\* The path get_sortable_columns computes for an entry (view.py:580-598):
\* the list of the components' paths for a composite, the path otherwise;
\* its truth value, and what its first element is
SortPathIsEmpty(entry) ==
    IF entry.composite THEN Len(entry.names) = 0
    ELSE GetFieldWithPath(entry.names[1]).path = <<>>

SortPathIsAccepted(entry) ==
    IF entry.composite THEN TRUE
    ELSE HasProperty(GetFieldWithPath(entry.names[1]).path[1])

\* A variant that checks the path of every component of a composite
SortEntryRaisesChecked(entry) ==
    \E i \in 1..Len(entry.names) :
        /\ GetFieldWithPath(entry.names[i]).path # <<>>
        /\ ~HasProperty(GetFieldWithPath(entry.names[i]).path[1])

\* One entry of column_sortable_list (view.py:600-608): it raises when the
\* path is not empty and its first element neither has a `property` nor is
\* a list
SortEntryRaises(entry) == ~SortPathIsEmpty(entry) /\ ~SortPathIsAccepted(entry)

\* get_sortable_columns()
GetSortableColumnsRaises(config) ==
    \E i \in 1..Len(config.column_sortable_list) :
        SortEntryRaises(config.column_sortable_list[i])

\* One name of column_searchable_list (view.py:681-687)
SearchNameRaises(name) == GetFieldWithPath(name).attr = "None"

\* init_search()
InitSearchRaises(config) ==
    \E i \in 1..Len(config.column_searchable_list) :
        SearchNameRaises(config.column_searchable_list[i])

\* scaffold_filters(name) (view.py:734-787): no attribute, or, for what is
\* neither a relationship nor a hybrid property, more than one column
ScaffoldFiltersRaises(name) ==
    LET f == GetFieldWithPath(name)
    IN \/ f.attr = "None"
       \/ /\ f.attr # "relationship"
          /\ f.attr # "hybrid"
          /\ f.columns > 1

\* get_filters(): scaffold_filters for every name of column_filters
GetFiltersRaises(config) ==
    \E i \in 1..Len(config.column_filters) : ScaffoldFiltersRaises(config.column_filters[i])

\* ModelView(model, session): the base class's constructor builds the
\* view's caches (sortable columns, search, filters, in this order), then
\* the primary key is looked for (view.py:403-407). The first exception
\* ends the construction.
ConstructRun(config) ==
    IF GetSortableColumnsRaises(config) THEN "get_sortable_columns"
    ELSE IF InitSearchRaises(config) THEN "init_search"
    ELSE IF GetFiltersRaises(config) THEN "scaffold_filters"
    ELSE IF ~config.has_pk THEN "__init__"
    ELSE "none"

NoView == [state |-> "none"]

RegInit == reg = NoView

\* The application constructs the view and adds it to the admin
Construct ==
    \E config \in ViewConfigs :
        /\ reg.state = "none"
        /\ reg' = [state |-> IF ConstructRun(config) = "none" THEN "registered" ELSE "failed",
                   config |-> config, raised_in |-> ConstructRun(config), served |-> FALSE]
        /\ UNCHANGED notRegVars

\* A request reaches a view that was added to the admin
ServeRequest ==
    /\ reg.state = "registered"
    /\ ~reg.served
    /\ reg' = [reg EXCEPT !.served = TRUE]
    /\ UNCHANGED notRegVars

\* The application stops
Shutdown ==
    /\ reg.state # "none"
    /\ reg' = NoView
    /\ UNCHANGED notRegVars

NextRegister ==
    \/ Construct
    \/ ServeRequest
    \/ Shutdown


(***************************************************************************)
(* QuerySelectField (fields.py:37-151)                                     *)
(***************************************************************************)
\* The model objects are numbered by primary key; object MaxObjects + 1 is
\* in no query. None is NoObj.
NoObj == 0
QueryObjects == 1..MaxObjects
AllObjects == 1..(MaxObjects + 1)

\* text_type(get_pk(obj)) (fields.py:117)
PkText(obj) == <<"1", "2", "3", "4", "5">>[obj]

\* _formdata: None, or the submitted key
NoFormdata == [t |-> "None"]
Formdata(v) == [t |-> "str", v |-> v]

\* _get_object_list() (fields.py:113-118): the (key, object) pairs of the
\* query, in the query's order
GetObjectList(objects) ==
    LET RECURSIVE From(_)
        From(obj) ==
            IF obj > MaxObjects + 1 THEN <<>>
            ELSE IF obj \in objects THEN <<[pk |-> PkText(obj), obj |-> obj]>> \o From(obj + 1)
            ELSE From(obj + 1)
    IN From(1)

\* _set_data(data) (fields.py:107-109)
SelSetData(f, data) == [f EXCEPT !._data = data, !._formdata = NoFormdata]

\* _get_data() (fields.py:99-105): the field after the read; f._data is the
\* value read
SelGetData(f) ==
    IF f._formdata # NoFormdata
    THEN LET objs == GetObjectList(f.query)
             hits == {i \in 1..Len(objs) : objs[i].pk = f._formdata.v}
         IN IF hits = {} THEN f
            ELSE SelSetData(f, objs[CHOOSE i \in hits : \A j \in hits : i <= j].obj)
    ELSE f

\* process_formdata(valuelist) (fields.py:131-137)
SelProcessFormdata(f, valuelist) ==
    IF valuelist # <<>>
    THEN IF f.allow_blank /\ valuelist[1] = "__None"
         THEN SelSetData(f, NoObj)
         ELSE [f EXCEPT !._data = NoObj, !._formdata = Formdata(valuelist[1])]
    ELSE f

\* pre_validate(form) (fields.py:139-145): the field after the reads of
\* data, and whether ValidationError was raised
SelPreValidate(f) ==
    LET g == SelGetData(f)
        objs == GetObjectList(g.query)
    IN [g EXCEPT !.validated =
           IF ~g.allow_blank \/ g._data # NoObj
           THEN IF \E i \in 1..Len(objs) : g._data = objs[i].obj THEN "ok" ELSE "error"
           ELSE "ok"]

\* What a form can submit for the field: nothing, a key, the blank choice
SubmittedKeys == {PkText(obj) : obj \in AllObjects} \cup {"__None"}
ValueLists == {<<>>} \cup {<<v>> : v \in SubmittedKeys}

NotSubmitted == <<"-">>

\* A field after the form was built: process_data set data to the edited
\* object's value
NewSelectFields ==
    [allow_blank : BOOLEAN, query : SUBSET QueryObjects, _data : {NoObj} \cup AllObjects,
     _formdata : {NoFormdata}, raw_data : {NotSubmitted}, validated : {"none"}]

SelParkedField ==
    [allow_blank |-> FALSE, query |-> {}, _data |-> NoObj, _formdata |-> NoFormdata,
     raw_data |-> NotSubmitted, validated |-> "none"]

SelInit == sel \in NewSelectFields

SelParked == sel = SelParkedField

\* Field.process: the submitted values reach process_formdata
SelSubmit ==
    \E valuelist \in ValueLists :
        /\ sel.raw_data = NotSubmitted
        /\ sel' = [SelProcessFormdata(sel, valuelist) EXCEPT !.raw_data = valuelist]
        /\ UNCHANGED notSelVars

\* Somebody reads field.data
SelReadData ==
    /\ sel.raw_data # NotSubmitted
    /\ sel' = SelGetData(sel)
    /\ UNCHANGED notSelVars

\* Field.validate calls pre_validate
SelValidate ==
    /\ sel.raw_data # NotSubmitted
    /\ sel' = SelPreValidate(sel)
    /\ UNCHANGED notSelVars

\* The request ends; the next one builds a new field
SelEndRequest ==
    /\ sel.raw_data # NotSubmitted
    /\ sel' \in NewSelectFields
    /\ UNCHANGED notSelVars

NextSelect ==
    \/ SelSubmit
    \/ SelReadData
    \/ SelValidate
    \/ SelEndRequest


(***************************************************************************)
(* QuerySelectMultipleField (fields.py:154-215)                            *)
(***************************************************************************)
\* set(valuelist) (fields.py:206)
ToSet(valuelist) == {valuelist[i] : i \in 1..Len(valuelist)}

FormdataSet(keys) == [t |-> "set", v |-> keys]

\* _set_data(data) (fields.py:191-193)
MselSetData(f, data) == [f EXCEPT !._data = data, !._formdata = NoFormdata]

\* The objects of the object list whose key is in formdata, in the list's
\* order (fields.py:180-186)
MselPick(objs, formdata) ==
    LET RECURSIVE From(_)
        From(i) ==
            IF i > Len(objs) THEN <<>>
            ELSE IF objs[i].pk \in formdata THEN <<objs[i].obj>> \o From(i + 1)
            ELSE From(i + 1)
    IN From(1)

\* _get_data() (fields.py:176-189): the field after the read; keys that
\* match no object are left in formdata and set _invalid_formdata
MselGetData(f) ==
    IF f._formdata # NoFormdata
    THEN LET objs == GetObjectList(f.query)
             left == f._formdata.v \ {objs[i].pk : i \in 1..Len(objs)}
         IN MselSetData([f EXCEPT !._invalid_formdata = @ \/ left # {}],
                        MselPick(objs, f._formdata.v))
    ELSE f

\* process_formdata(valuelist) (fields.py:205-206)
MselProcessFormdata(f, valuelist) == [f EXCEPT !._formdata = FormdataSet(ToSet(valuelist))]

\* The second branch of pre_validate (fields.py:211-215): data is read, and
\* every object of it has to be in the object list
MselValidateData(g) ==
    [g EXCEPT !.validated =
        IF g._data # <<>>
              /\ \E k \in 1..Len(g._data) :
                     \A i \in 1..Len(GetObjectList(g.query)) :
                         GetObjectList(g.query)[i].obj # g._data[k]
        THEN "error" ELSE "ok"]

\* pre_validate(form) (fields.py:208-215): _invalid_formdata is tested
\* first, data is read after it
MselPreValidate(f) ==
    IF f._invalid_formdata THEN [f EXCEPT !.validated = "error"]
    ELSE MselValidateData(MselGetData(f))

MselKeys == {PkText(obj) : obj \in AllObjects}
MselValueLists == SeqsUpTo(MselKeys, 2)

\* A field after the form was built: process_data set data to the edited
\* object's list (the default is the empty list)
NewMultipleFields ==
    [query : SUBSET QueryObjects, _data : SeqsUpTo(AllObjects, 1),
     _formdata : {NoFormdata}, _invalid_formdata : {FALSE},
     raw_data : {NotSubmitted}, validated : {"none"}]

MselParkedField ==
    [query |-> {}, _data |-> <<>>, _formdata |-> NoFormdata, _invalid_formdata |-> FALSE,
     raw_data |-> NotSubmitted, validated |-> "none"]

MselInit == msel \in NewMultipleFields

MselParked == msel = MselParkedField

\* Field.process: the submitted values reach process_formdata
MselSubmit ==
    \E valuelist \in MselValueLists :
        /\ msel.raw_data = NotSubmitted
        /\ msel' = [MselProcessFormdata(msel, valuelist) EXCEPT !.raw_data = valuelist]
        /\ UNCHANGED notMselVars

\* Somebody reads field.data
MselReadData ==
    /\ msel.raw_data # NotSubmitted
    /\ msel' = MselGetData(msel)
    /\ UNCHANGED notMselVars

\* Field.validate calls pre_validate
MselValidate ==
    /\ msel.raw_data # NotSubmitted
    /\ msel' = MselPreValidate(msel)
    /\ UNCHANGED notMselVars

\* The request ends; the next one builds a new field
MselEndRequest ==
    /\ msel.raw_data # NotSubmitted
    /\ msel' \in NewMultipleFields
    /\ UNCHANGED notMselVars

NextSelectMultiple ==
    \/ MselSubmit
    \/ MselReadData
    \/ MselValidate
    \/ MselEndRequest


(***************************************************************************)
(* Primary-key identifiers: get_pk_value and get_one (view.py:481-492,     *)
(* 1290-1305)                                                              *)
(***************************************************************************)
\* The delimiter that joins the components of an identifier, and the
\* character that escapes it
CharSeparator == ","
CharEscape == "."

\* What the text components of a key are made of
KeyChars == {"a", CharSeparator, CharEscape}
KeyTexts == {Text(str) : str \in SeqsUpTo(KeyChars, MaxKeyLen)}
KeyNumbers == {Number(1), Number(12)}

\* The primary-key columns of the model kinds: one text column, one integer
\* column, or a composite key
PkColumns(kind) ==
    CASE kind = "text" -> <<"text">>
      [] kind = "integer" -> <<"integer">>
      [] kind = "text_integer" -> <<"text", "integer">>
      [] kind = "text_text" -> <<"text", "text">>

PkKinds == {"text", "integer", "text_integer", "text_text"}

ColumnValues(type) == IF type = "text" THEN KeyTexts ELSE KeyNumbers

\* The keys of the rows of a model: every combination of column values
RowKeys(kind) ==
    {key \in SeqsUpTo(KeyTexts \cup KeyNumbers, 2) :
        /\ Len(key) = Len(PkColumns(kind))
        /\ \A i \in 1..Len(key) : key[i] \in ColumnValues(PkColumns(kind)[i])}

\* isinstance(self._primary_key, tuple) (view.py:489)
IsCompositeKey(kind) == Len(PkColumns(kind)) > 1

\* tools.escape(value): the text of the value with the escape character
\* doubled and the separator escaped
RECURSIVE EscapeFrom(_, _)
EscapeFrom(str, i) ==
    IF i > Len(str) THEN <<>>
    ELSE (IF str[i] \in {CharEscape, CharSeparator} THEN <<CharEscape, str[i]>> ELSE <<str[i]>>)
            \o EscapeFrom(str, i + 1)

Escape(val) == EscapeFrom(CastUnicode(val).v, 1)

\* tools.iterencode(values): the escaped components joined by the separator
RECURSIVE IterEncode(_)
IterEncode(values) ==
    IF values = <<>> THEN <<>>
    ELSE IF Len(values) = 1 THEN Escape(values[1])
    ELSE Escape(values[1]) \o <<CharSeparator>> \o IterEncode(Tail(values))

\* tools.iterdecode(value): cuts at the separators that are not escaped and
\* takes the escapes away; the components are text
RECURSIVE IterDecodeFrom(_, _, _, _)
IterDecodeFrom(str, i, escaped, accumulator) ==
    IF i > Len(str) THEN <<accumulator>>
    ELSE IF ~escaped /\ str[i] = CharEscape THEN IterDecodeFrom(str, i + 1, TRUE, accumulator)
    ELSE IF ~escaped /\ str[i] = CharSeparator
         THEN <<accumulator>> \o IterDecodeFrom(str, i + 1, FALSE, <<>>)
    ELSE IterDecodeFrom(str, i + 1, FALSE, Append(accumulator, str[i]))

IterDecode(str) == IterDecodeFrom(str, 1, FALSE, <<>>)

\* A variant of get_pk_value that does not escape a single key
GetPkValuePlainSingle(kind, key) ==
    IF IsCompositeKey(kind) THEN IterEncode(key) ELSE CastUnicode(key[1]).v

\* get_pk_value(model) (view.py:489-492)
GetPkValue(kind, key) ==
    IF IsCompositeKey(kind) THEN IterEncode(key) ELSE Escape(key[1])

NoRow == <<>>

\* session.get(model, ident): the row whose primary-key columns, compared
\* in the columns' types, hold the components of ident; None when there is
\* none. An ident with another number of components than the key is an
\* error.
SessionGet(kind, ident) ==
    IF Len(ident) # Len(PkColumns(kind)) THEN [raised |-> TRUE, row |-> NoRow]
    ELSE LET hits == {key \in RowKeys(kind) :
                         \A i \in 1..Len(key) : CastUnicode(key[i]).v = ident[i]}
         IN [raised |-> FALSE, row |-> IF hits = {} THEN NoRow ELSE CHOOSE key \in hits : TRUE]

\* get_one(id) (view.py:1305)
GetOne(kind, id) == SessionGet(kind, IterDecode(id))

NoPkCall == [stage |-> "idle"]

PkInit == pkv = NoPkCall

\* The list view builds the identifier of a row
GetPkValueCall ==
    \E kind \in PkKinds :
        \E key \in RowKeys(kind) :
            /\ pkv.stage = "idle"
            /\ pkv' = [stage |-> "encoded", kind |-> kind, key |-> key,
                       id |-> GetPkValue(kind, key)]
            /\ UNCHANGED notPkVars

\* A later request brings the identifier back
GetOneCall ==
    /\ pkv.stage = "encoded"
    /\ pkv' = [stage |-> "found", kind |-> pkv.kind, key |-> pkv.key, id |-> pkv.id,
               out |-> GetOne(pkv.kind, pkv.id)]
    /\ UNCHANGED notPkVars

EndPk ==
    /\ pkv.stage = "found"
    /\ pkv' = NoPkCall
    /\ UNCHANGED notPkVars

NextPk ==
    \/ GetPkValueCall
    \/ GetOneCall
    \/ EndPk


(***************************************************************************)
(* Several get_list calls in flight on one view (view.py:1214-1288)        *)
(***************************************************************************)
\* The requests that can be in flight together
Requests == {"r1", "r2"}

\* What the view holds for the list operation, built when the view was
\* registered: _filters, _filter_joins, _search_fields, _sortable_joins and
\* _auto_joins
ViewLevelState ==
    [_filters |-> Filters,
     _filter_joins |-> [i \in 1..Len(Filters) |-> Filters[i].path],
     _search_fields |-> SearchFields,
     _sortable_joins |-> SortableColumns,
     _auto_joins |-> AutoJoins]

\* The calls made while another is in flight
PairArgs ==
    [page : {Unset}, sort_column : {NoColumn, "title"}, sort_desc : {FALSE},
     search : {<<>>, <<"a">>}, filters : {<<>>, <<FilterArg(1, <<"b">>)>>},
     execute : {TRUE}, page_size : {Unset}]

NotCalled == [phase |-> "new"]

\* The locals of the calls in flight, other than request r's
OtherCalls(r) == {inflight[o].st : o \in {x \in Requests \ {r} : inflight[x].phase # "new"}}

\* A variant that goes on with the joins maps of a call in flight
StartCallSharedJoins(others, simple_list_pager) ==
    IF others = {} THEN ListStart(simple_list_pager)
    ELSE LET o == CHOOSE x \in others : TRUE
         IN [ListStart(simple_list_pager) EXCEPT !.joins = o.joins, !.cjoins = o.cjoins,
                                                 !.nalias = o.nalias]

\* joins = {}, count_joins = {}, query, count_query (view.py:1245-1250):
\* locals of the call, whatever the other calls hold
StartCall(others, simple_list_pager) == ListStart(simple_list_pager)

PairInit ==
    /\ viewState = ViewLevelState
    /\ inflight = [r \in Requests |-> NotCalled]

\* A request enters get_list
PairStart ==
    \E r \in Requests : \E args \in PairArgs :
        /\ inflight[r].phase = "new"
        /\ inflight' = [inflight EXCEPT ![r] =
               [phase |-> "started", args |-> args,
                st |-> StartCall(OtherCalls(r), simpleListPager)]]
        /\ UNCHANGED <<viewState, simpleListPager, viewPageSize>>
        /\ UNCHANGED notPairVars

\* The call applies the search (view.py:1259-1263)
PairSearch ==
    \E r \in Requests :
        /\ inflight[r].phase = "started"
        /\ inflight' = [inflight EXCEPT ![r].phase = "searched",
                                        ![r].st = ListSearch(@, inflight[r].args.search)]
        /\ UNCHANGED <<viewState, simpleListPager, viewPageSize>>
        /\ UNCHANGED notPairVars

\* The call applies the filters (view.py:1265-1269)
PairFilters ==
    \E r \in Requests :
        /\ inflight[r].phase = "searched"
        /\ inflight' = [inflight EXCEPT ![r].phase = "filtered",
                                        ![r].st = ListFilters(@, inflight[r].args.filters)]
        /\ UNCHANGED <<viewState, simpleListPager, viewPageSize>>
        /\ UNCHANGED notPairVars

\* The call counts, sorts, paginates and executes (view.py:1271-1288)
PairTail ==
    \E r \in Requests :
        /\ inflight[r].phase = "filtered"
        /\ inflight' = [inflight EXCEPT ![r].phase = "done",
                                        ![r].st = ListTail(@, inflight[r].args, viewPageSize)]
        /\ UNCHANGED <<viewState, simpleListPager, viewPageSize>>
        /\ UNCHANGED notPairVars

\* The call returns; its locals are dropped
PairEnd ==
    \E r \in Requests :
        /\ inflight[r].phase = "done"
        /\ inflight' = [inflight EXCEPT ![r] = NotCalled]
        /\ UNCHANGED <<viewState, simpleListPager, viewPageSize>>
        /\ UNCHANGED notPairVars

NextPair ==
    \/ PairStart
    \/ PairSearch
    \/ PairFilters
    \/ PairTail
    \/ PairEnd


NextMutate ==
    \/ CreateModel
    \/ UpdateModel
    \/ DeleteModel
    \/ ActionDelete
    \/ EndRequest

InitMutate == JoinsInit /\ MutInit /\ ListInit /\ OneInit /\ SearchParked /\ GetListParked /\ RegInit /\ SelParked /\ MselParked /\ PkInit /\ PairInit

SpecMutate == InitMutate /\ [][NextMutate]_vars

InitJoins == JoinsInit /\ MutParked /\ ListInit /\ OneInit /\ SearchParked /\ GetListParked /\ RegInit /\ SelParked /\ MselParked /\ PkInit /\ PairInit

SpecJoins == InitJoins /\ [][NextJoins]_vars

InitInlineList == JoinsInit /\ MutParked /\ ListInit /\ OneInit /\ SearchParked /\ GetListParked /\ RegInit /\ SelParked /\ MselParked /\ PkInit /\ PairInit

SpecInlineList == InitInlineList /\ [][NextInlineList]_vars

InitInlineOne == JoinsInit /\ MutParked /\ ListInit /\ OneInitModels /\ SearchParked /\ GetListParked /\ RegInit /\ SelParked /\ MselParked /\ PkInit /\ PairInit

SpecInlineOne == InitInlineOne /\ [][NextInlineOne]_vars

InitSearch == JoinsInit /\ MutParked /\ ListInit /\ OneInit /\ SearchInit /\ GetListParked /\ RegInit /\ SelParked /\ MselParked /\ PkInit /\ PairInit

SpecSearch == InitSearch /\ [][NextSearch]_vars

InitGetList == JoinsInit /\ MutParked /\ ListInit /\ OneInit /\ SearchInit /\ GetListInit /\ RegInit /\ SelParked /\ MselParked /\ PkInit /\ PairInit

SpecGetList == InitGetList /\ [][NextGetList]_vars

InitRegister ==
    JoinsInit /\ MutParked /\ ListInit /\ OneInit /\ SearchParked /\ GetListParked /\ RegInit /\ SelParked /\ MselParked /\ PkInit /\ PairInit

SpecRegister == InitRegister /\ [][NextRegister]_vars

InitSelect ==
    JoinsInit /\ MutParked /\ ListInit /\ OneInit /\ SearchParked /\ GetListParked /\ RegInit
        /\ SelInit /\ MselParked /\ PkInit /\ PairInit

SpecSelect == InitSelect /\ [][NextSelect]_vars

InitSelectMultiple ==
    JoinsInit /\ MutParked /\ ListInit /\ OneInit /\ SearchParked /\ GetListParked /\ RegInit
        /\ SelParked /\ MselInit /\ PkInit /\ PairInit

SpecSelectMultiple == InitSelectMultiple /\ [][NextSelectMultiple]_vars

InitPk ==
    JoinsInit /\ MutParked /\ ListInit /\ OneInit /\ SearchParked /\ GetListParked /\ RegInit
        /\ SelParked /\ MselParked /\ PkInit /\ PairInit

SpecPk == InitPk /\ [][NextPk]_vars

InitPair ==
    JoinsInit /\ MutParked /\ ListInit /\ OneInit /\ SearchInit /\ GetListInit /\ RegInit
        /\ SelParked /\ MselParked /\ PkInit /\ PairInit

SpecPair == InitPair /\ [][NextPair]_vars

(***************************************************************************)
(* C1                                                                      *)
(***************************************************************************)
JoinKeys == BOOLEAN \X Items

ClausesFor(q, key) ==
    Cardinality({i \in 1..Len(q) :
        q[i].item = key[2] /\ q[i].fn = (IF key[1] THEN "join" ELSE "outerjoin")})

KeysOfCall(path, inner_join) == {<<inner_join, path[i]>> : i \in 1..Len(path)}

C1_State ==
    \A key \in JoinKeys :
        ClausesFor(query, key) = IF key \in DOMAIN joins THEN 1 ELSE 0

C1_Step ==
    \A path \in Paths, inner_join \in BOOLEAN :
        ApplyPathJoinsCall(path, inner_join) =>
            /\ \A key \in JoinKeys :
                /\ key \in DOMAIN joins =>
                    /\ key \in DOMAIN joins'
                    /\ joins'[key] = joins[key]
                    /\ ClausesFor(query', key) = ClausesFor(query, key)
                /\ key \in KeysOfCall(path, inner_join) \ DOMAIN joins =>
                    /\ key \in DOMAIN joins'
                    /\ ClausesFor(query', key) = 1
                /\ key \notin KeysOfCall(path, inner_join) \cup DOMAIN joins =>
                    key \notin DOMAIN joins'
            /\ Len(path) > 0 => last' = joins'[<<inner_join, path[Len(path)]>>]

\* C1: within one pass every key (inner_join, item) gets exactly one join
\* clause, appended by the first call whose path holds it; later calls with
\* the key append nothing and use the alias stored first, which is never
\* replaced.
C1_JoinOncePerKey == [](C1_State) /\ [][C1_Step]_vars

\* A call returned an alias that an earlier call had allocated and cached:
\* a hop that is not cached returns the newest alias (or none, for a table).
C1_Witness ==
    /\ last # NoAlias
    /\ last < nalias
    /\ \A key \in DOMAIN joins : ClausesFor(query, key) = 1

(***************************************************************************)
(* C2 - C4, C8, C9: the mutation handlers                                  *)
(***************************************************************************)
SingleRowOps == {"create_model", "update_model", "delete_model"}

TrySteps == SeqRange(CreateSteps) \cup SeqRange(UpdateSteps) \cup SeqRange(DeleteSteps)

\* Positions of the trace where a call raised
RaisedAt == {i \in 1..Len(op.trace) :
                ~op.trace[i].ok /\ op.trace[i].ev # "handle_view_exception"}

\* Positions of the trace where a call inside a try block raised
RaisedInTryAt == {i \in RaisedAt : op.trace[i].ev \in TrySteps \cup {"bulk_delete"}}

EventCount(ev, row) ==
    Cardinality({i \in 1..Len(op.trace) : op.trace[i].ev = ev /\ op.trace[i].row = row})

HasEvent(ev) == \E i \in 1..Len(op.trace) : op.trace[i].ev = ev

RollbackAfter(i) == \E j \in (i + 1)..Len(op.trace) : op.trace[j].ev = "rollback"

\* Neither re-raise setting of the host is on
NoReraiseConfigured == cfgIntegrity # "true" /\ cfgView # "true"

\* C2: with no re-raise configured, an exception raised inside create_model,
\* update_model or delete_model is followed by a rollback, the call returns
\* False and nothing is raised to the caller; afterwards the session holds
\* no pending write and the table is as it was before the call.
C2_FailureRollsBackAndReturnsFalse ==
    (op.name \in SingleRowOps /\ NoReraiseConfigured /\ RaisedInTryAt # {}) =>
        /\ op.result = "False"
        /\ op.exc = "none"
        /\ \A i \in RaisedInTryAt : RollbackAfter(i)
        /\ sess = CleanSession
        /\ db = op.before

\* create_model met an integrity error at commit and returned False
C2_Witness ==
    /\ op.name = "create_model"
    /\ NoReraiseConfigured
    /\ op.in.failAt = "commit"
    /\ op.in.exc = "integrity"
    /\ op.result = "False"
    /\ HasEvent("add")

\* C3: whenever create_model, update_model, delete_model or action_delete
\* fails with an exception, under any configuration, session.rollback() has
\* been called after the failure and before the handler is left.
C3_RollbackOnEveryFailure ==
    (op.name \in SingleRowOps \cup {"action_delete"}) =>
        \A i \in RaisedAt : RollbackAfter(i)

\* The host asked for integrity errors to be re-raised: the first setting
\* when it is there, the second when the first is absent
ReraiseIntegrity ==
    IF cfgIntegrity # "unset" THEN cfgIntegrity = "true" ELSE cfgView = "true"

\* C4: an integrity error raised inside create_model, update_model or
\* delete_model reaches the caller iff the host is configured to re-raise;
\* otherwise it is flashed as an integrity error, counts as handled (no
\* generic failure message) and the call returns False.
C4_IntegrityErrorPropagatesIffConfigured ==
    (op.name \in SingleRowOps /\ RaisedInTryAt # {} /\ op.in.exc = "integrity") =>
        /\ (op.result = "raised" /\ op.exc = "integrity") <=> ReraiseIntegrity
        /\ ~ReraiseIntegrity =>
            /\ op.result = "False"
            /\ HasEvent("flash_integrity_error")
            /\ ~HasEvent("flash_failed")
            /\ ~HasEvent("log_exception")

\* The first setting is absent, the second is on, and the error was re-raised
C4_Witness ==
    /\ op.name = "update_model"
    /\ cfgIntegrity = "unset"
    /\ cfgView = "true"
    /\ op.in.failAt = "commit"
    /\ op.in.exc = "integrity"
    /\ op.result = "raised"

SingleRowEvents ==
    {"on_model_delete", "after_model_delete", "flush", "delete", "rollback"}

\* C8: with fast_mass_delete, action_delete issues one bulk delete statement
\* and calls neither delete_model nor a single-row hook for any row.
C8_FastDeleteOneStatementNoHooks ==
    (op.name = "action_delete" /\ fastMassDelete) =>
        /\ EventCount("bulk_delete", NoPk) = 1
        /\ \A i \in 1..Len(op.trace) :
            /\ op.trace[i].row = NoPk
            /\ op.trace[i].ev \notin SingleRowEvents

\* A fast bulk delete of two rows went through
C8_Witness ==
    /\ op.name = "action_delete"
    /\ fastMassDelete
    /\ Cardinality(op.arg \cap op.before) = 2
    /\ op.arg \cap db = {}
    /\ HasEvent("flash_success")

SelectedRows == op.arg \cap op.before

DeletedRows == op.before \ db

\* C9 as stated: on the row-by-row path the pre-delete and the post-delete
\* hook each fire once for a deleted row and not at all for a row that was
\* not deleted, and the reported count is the number of successes.
C9_HooksOncePerDeletedRow ==
    (op.name = "action_delete" /\ ~fastMassDelete) =>
        /\ \A row \in PKs :
            /\ EventCount("on_model_delete", row) = IF row \in DeletedRows THEN 1 ELSE 0
            /\ EventCount("after_model_delete", row) = IF row \in DeletedRows THEN 1 ELSE 0
        /\ HasEvent("flash_success") => op.count = Cardinality(DeletedRows)

\* C9, amended: on the row-by-row path only selected rows are deleted; the
\* pre-delete hook fires once for every row delete_model is called on,
\* deleted or not (every selected row, when the loop reaches the final
\* commit), the post-delete hook fires once for every deleted row and for no
\* other, and the reported count is the number of rows deleted.
C9_HooksPerRowAmended ==
    (op.name = "action_delete" /\ ~fastMassDelete) =>
        /\ DeletedRows \subseteq SelectedRows
        /\ db \subseteq op.before
        /\ \A row \in PKs :
            /\ EventCount("on_model_delete", row) <= 1
            /\ row \notin SelectedRows => EventCount("on_model_delete", row) = 0
            /\ row \in DeletedRows => EventCount("on_model_delete", row) = 1
            /\ (row \in SelectedRows /\ EventCount("commit", NoPk) = 1) =>
                    EventCount("on_model_delete", row) = 1
            /\ EventCount("after_model_delete", row) = IF row \in DeletedRows THEN 1 ELSE 0
        /\ HasEvent("flash_success") => op.count = Cardinality(DeletedRows)

\* Of two selected rows one was deleted; the other met a failure after its
\* pre-delete hook had fired, and stayed
C9_Witness ==
    /\ op.name = "action_delete"
    /\ ~fastMassDelete
    /\ Cardinality(SelectedRows) = 2
    /\ Cardinality(DeletedRows) = 1
    /\ \E row \in SelectedRows \ DeletedRows : EventCount("on_model_delete", row) = 1
    /\ HasEvent("flash_success")
    /\ op.count = 1

(***************************************************************************)
(* C5 - C7: inline model fields                                            *)
(***************************************************************************)
OccurrencesIn(q, x) == Cardinality({i \in 1..Len(q) : q[i] = x})

\* The submission of C5 for the children before[a] and before[b]: entry i
\* edits before[a], entry j marks before[b] for deletion, entry k is new
C5_Submitted(a, b, i, j, k) ==
    LET before == listLog.before
        entries == listLog.entries
    IN /\ listLog.called
       /\ Len(before) = 2 /\ a # b
       /\ Len(entries) = 3 /\ {i, j, k} = {1, 2, 3}
       /\ entries[i].pk = PyStr(ToString(before[a].pk)) /\ ~entries[i].del
       /\ entries[j].pk = PyStr(ToString(before[b].pk)) /\ entries[j].del
       /\ entries[k].pk = PyNone

\* C5: with children {A, B}, submitting A edited, a new row C and B marked
\* for deletion leaves the unit of work with the child set {A', C}: A is
\* the same object with the submitted value, C is a new object; B is handed
\* to session.delete once and is not populated.
C5_InlineListEditAddDelete ==
    \A a, b \in 1..2, i, j, k \in 1..3 :
        C5_Submitted(a, b, i, j, k) =>
            LET before == listLog.before
                entries == listLog.entries
                kept == Kept(children, sdeleted)
            IN /\ Len(kept) = 2
               /\ kept[1] = [before[a] EXCEPT !.val = entries[i].val]
               /\ kept[2].pk = NoPk
               /\ kept[2].val = entries[k].val
               /\ kept[2].oid \notin {before[a].oid, before[b].oid}
               /\ OccurrencesIn(sdeleted, before[b].oid) = 1
               /\ OccurrencesIn(listLog.populated, before[b].oid) = 0
               /\ before[b] \in SeqRange(children)

\* The submission of C5 was made, A's value changing with it
C5_Witness ==
    \E a, b \in 1..2, i, j, k \in 1..3 :
        /\ C5_Submitted(a, b, i, j, k)
        /\ listLog.before[a].val # listLog.entries[i].val

AllFieldsBlank(form) ==
    \A n \in 1..Len(OneFormFields) :
        form[OneFormFields[n]] \in {PyNone, PyStr("")}

\* C6: when the parent has no child and every field of the sub-form holds
\* None or "", the new child is dropped: the parent's attribute is not set
\* and the change hook is not called.
C6_BlankFormCreatesNoChild ==
    (oneLog.called /\ oneLog.before = <<>> /\ AllFieldsBlank(oneLog.form)) =>
        /\ one = <<>>
        /\ oneLog.hooks = <<>>

\* A form holding both None and "" was submitted for a parent without child
C6_Witness ==
    /\ oneLog.called
    /\ oneLog.before = <<>>
    /\ oneLog.form = [id |-> PyNone, f1 |-> PyStr(""), f2 |-> PyNone]
    /\ one = <<>>

BlankFormKeepsChildAttached ==
    (oneLog.called /\ oneLog.before # <<>> /\ AllFieldsBlank(oneLog.form)) =>
        /\ Len(one) = 1
        /\ onePk.t = "str" => one[1].pk = oneLog.before[1].pk
        /\ one[1].f1 = oneLog.form.f1
        /\ one[1].f2 = oneLog.form.f2
        /\ oneLog.hooks = <<>>

\* A child holding a text took the blank value of the form
BlankFormOverwroteChild ==
    /\ oneLog.called
    /\ oneLog.before # <<>>
    /\ AllFieldsBlank(oneLog.form)
    /\ oneLog.before[1].f1 = PyStr("x")
    /\ one[1].f1 = oneLog.form.f1

(***************************************************************************)
(* C10: search terms and conjuncts                                         *)
(***************************************************************************)
Whitespace == {" ", "\t"}

\* The pieces of a string between runs of the given separator characters,
\* empty pieces left out
RECURSIVE WordsFrom(_, _, _, _)
WordsFrom(str, seps, i, piece) ==
    LET done == IF piece = <<>> THEN <<>> ELSE <<piece>>
    IN IF i > Len(str) THEN done
       ELSE IF str[i] \in seps
            THEN done \o WordsFrom(str, seps, i + 1, <<>>)
            ELSE WordsFrom(str, seps, i + 1, Append(piece, str[i]))

Words(str, seps) == WordsFrom(str, seps, 1, <<>>)

\* A row matches a term when one searchable field, cast to text, matches it
RowMatchesTerm(row, term) ==
    \E i \in 1..Len(SearchFields) :
        ILike(CastUnicode(row[SearchFields[i].field]), ParseLikeTerm(term))

RowsMatching(terms) ==
    {row \in TableRows : \A i \in 1..Len(terms) : RowMatchesTerm(row, terms[i])}

\* A query's conjuncts with each alias replaced by the path item it stands
\* for in the query's joins dict, so that two queries can be compared
AliasItem(js, alias) ==
    IF alias = NoAlias THEN "model"
    ELSE (CHOOSE key \in DOMAIN js : js[key] = alias)[2]

Conjuncts(q, js) ==
    [i \in 1..Len(q.where) |->
        [j \in 1..Len(q.where[i]) |->
            [field |-> q.where[i][j].field,
             of |-> AliasItem(js, q.where[i][j].alias),
             stmt |-> q.where[i][j].stmt]]]

SearchAgrees(terms) ==
    /\ QueryRows(srch.query) = RowsMatching(terms)
    /\ Len(srch.query.where) = Len(terms)
    /\ srch.count_query # <<>> =>
          /\ Conjuncts(srch.count_query[1], srch.count_joins)
                = Conjuncts(srch.query, srch.joins)
          /\ QueryRows(srch.count_query[1]) = QueryRows(srch.query)

\* C10 as stated: the search string is split on whitespace into terms; the
\* rows returned are those where every term matches one searchable field
\* without regard to case; every non-empty term adds one conjunct, and the
\* count query, when there is one, gets the same conjuncts.
C10_SearchSplitsOnWhitespace ==
    srch.called => SearchAgrees(Words(srch.search, Whitespace))

\* C10 with the terms the code cuts: the same, the search string being
\* split at the space character only.
C10_SearchSplitsOnSpaces ==
    srch.called => SearchAgrees(Words(srch.search, {" "}))

\* Two terms were searched with a count query beside the listing query, and
\* some rows matched, others not
C10_Witness ==
    /\ srch.called
    /\ srch.count_query # <<>>
    /\ Len(Words(srch.search, {" "})) = 2
    /\ QueryRows(srch.query) # {}
    /\ QueryRows(srch.query) # TableRows

(***************************************************************************)
(* C11 - C14, C17, C18: get_list                                           *)
(***************************************************************************)
Returned == lst.called /\ lst.out.result = "returned"

\* What a submitted filter asks of a row, said without the query: the
\* integer filter an equal code, the like filter a matching title, the
\* custom filter an equal name
RowPassesFilter(row, arg) ==
    CASE arg.idx = 0 -> IsDigits(arg.value) /\ row.code = Number(ParseInt(arg.value))
      [] arg.idx = 1 -> ILike(row.title, ParseLikeTerm(arg.value))
      [] arg.idx = 2 -> row.name = Text(arg.value)

\* The rows that satisfy the search and the filters of the call
RowsAskedFor ==
    {row \in RowsMatching(Words(lst.args.search, {" "})) :
        \A i \in 1..Len(lst.args.filters) : RowPassesFilter(row, lst.args.filters[i])}

\* C11: in simple-pager mode get_list creates no count query, applies no
\* join and no predicate to one, executes no count and returns None as the
\* total; otherwise the total is the scalar of the count query, which carries
\* the search and filter predicates.
C11_CountIffNotSimplePager ==
    lst.called =>
        /\ simpleListPager =>
              /\ lst.out.count_query = <<>>
              /\ lst.out.count_joins = <<>>
              /\ ~lst.out.counted
              /\ lst.out.count = Unset
        /\ (~simpleListPager /\ Returned) =>
              /\ lst.out.count_query # <<>>
              /\ lst.out.counted
              /\ lst.out.count = Cardinality(QueryRows(lst.out.count_query[1]))
              /\ QueryRows(lst.out.count_query[1]) = RowsAskedFor

\* A list was asked for in simple-pager mode with a search and a filter, and
\* came back executed and without a total
C11_Witness ==
    /\ Returned
    /\ simpleListPager
    /\ lst.args.search # <<>>
    /\ lst.args.filters # <<>>
    /\ lst.out.executed
    /\ lst.out.count = Unset

\* OFFSET 0 and no OFFSET skip the same rows: none
EffectiveOffset(q) == IF q.offset = Unset THEN 0 ELSE q.offset

PageNumber == IF lst.args.page = Unset THEN 0 ELSE lst.args.page

FullResult ==
    /\ lst.out.query.limit = Unset
    /\ lst.out.query.offset = Unset
    /\ lst.out.executed => lst.out.rows = Cardinality(QueryRows(lst.out.query))

\* C12 as stated: for every page and positive page size the listing query
\* gets LIMIT pageSize OFFSET page*pageSize; a page size of zero or any falsy
\* value (None among them) passed to get_list disables the limit: no LIMIT,
\* no OFFSET, the full result set.
C12_FalsyPageSizeDisablesLimit ==
    Returned =>
        /\ lst.args.page_size > 0 =>
              /\ lst.out.query.limit = lst.args.page_size
              /\ EffectiveOffset(lst.out.query) = PageNumber * lst.args.page_size
        /\ lst.args.page_size \in {0, Unset} => FullResult

\* C12, amended: a page size of None stands for the view's page_size; the
\* page size so obtained, when positive, gives LIMIT pageSize OFFSET
\* page*pageSize, and when zero (or False) disables the limit: no LIMIT, no
\* OFFSET, the full result set.
C12_PaginationWithViewDefault ==
    Returned =>
        LET page_size == IF lst.args.page_size = Unset THEN viewPageSize
                         ELSE lst.args.page_size
        IN /\ page_size > 0 =>
                 /\ lst.out.query.limit = page_size
                 /\ EffectiveOffset(lst.out.query) = PageNumber * page_size
           /\ page_size = 0 => FullResult

\* A later page was asked for with no page size, and the view's page size
\* set limit and offset
C12_Witness ==
    /\ Returned
    /\ lst.args.page_size = Unset
    /\ lst.args.page = 1
    /\ viewPageSize = 3
    /\ lst.out.query.limit = 3
    /\ lst.out.query.offset = 3

\* The item a join path ends at: what the column of an order clause or of a
\* criterion belongs to
PathEnd(path) == IF path = <<>> THEN "model" ELSE path[Len(path)]

\* The order clauses are those of the entries, one for one and in their
\* order, each on the column its join path leads to, and every hop of the
\* path is in the joins dict
OrderFollows(entries, descOf(_)) ==
    /\ Len(lst.out.query.order) = Len(entries)
    /\ \A i \in 1..Len(entries) :
          /\ lst.out.query.order[i].field = entries[i].field
          /\ lst.out.query.order[i].desc = descOf(i)
          /\ AliasItem(lst.out.joins, lst.out.query.order[i].alias) = PathEnd(entries[i].path)
          /\ \A k \in 1..Len(entries[i].path) :
                <<FALSE, entries[i].path[k]>> \in DOMAIN lst.out.joins

CallerDesc(i) == lst.args.sort_desc

DefaultDesc(i) == DefaultOrder[i].desc

\* C13 as stated: a registered sortable column gets its join path and a
\* single order clause, descending iff sort_desc, and no default order; with
\* no sort column the default order list is applied entry by entry, each
\* entry with its own direction.
C13_SingleOrderClause ==
    Returned =>
        /\ lst.args.sort_column \in DOMAIN SortableColumns =>
              /\ Len(lst.out.query.order) = 1
              /\ OrderFollows(SubSeq(SortableColumns[lst.args.sort_column].parts, 1, 1),
                              CallerDesc)
        /\ lst.args.sort_column = NoColumn => OrderFollows(DefaultOrder, DefaultDesc)

\* C13, amended: a registered sortable column gets its join path and its
\* order clause, one clause for a plain column and one clause per component,
\* in the components' order, for a composite one, every clause descending
\* iff sort_desc, and no default order; with no sort column the default
\* order list is applied entry by entry, each entry with its own direction.
C13_OrderClausePerComponent ==
    Returned =>
        /\ lst.args.sort_column \in DOMAIN SortableColumns =>
              OrderFollows(SortableColumns[lst.args.sort_column].parts, CallerDesc)
        /\ lst.args.sort_column = NoColumn => OrderFollows(DefaultOrder, DefaultDesc)

\* The composite column was sorted on, descending
C13_Witness ==
    /\ Returned
    /\ lst.args.sort_column = "combo"
    /\ lst.args.sort_desc
    /\ Len(lst.out.query.order) = 2
    /\ lst.out.query.order[1].alias # NoAlias

\* The filters of the call whose value can be cleaned
CleanFilters == {i \in 1..Len(lst.args.filters) :
                    FilterClean(Filters[lst.args.filters[i].idx + 1],
                                lst.args.filters[i].value).exc = "none"}

\* C14: a filter value that fails the filter's clean step does not abort the
\* list operation: get_list returns a result, and the predicates of the other
\* submitted filters are on the query.
C14_InvalidFilterDoesNotAbort ==
    lst.called =>
        /\ lst.out.result = "returned"
        /\ Len(lst.out.query.where)
              = Len(Words(lst.args.search, {" "})) + Cardinality(CleanFilters)

\* C17: every join get_list adds, for a search path, a filter path or a sort
\* path, is a left outer join, on the listing query and on the count query,
\* so that a row of the model without a related row stays in the result
\* when it satisfies what was asked for.
C17_OnlyOuterJoins ==
    lst.called =>
        /\ \A i \in 1..Len(lst.out.query.joins) : lst.out.query.joins[i].fn = "outerjoin"
        /\ \A key \in DOMAIN lst.out.joins : key[1] = FALSE
        /\ lst.out.count_query # <<>> =>
              /\ \A i \in 1..Len(lst.out.count_query[1].joins) :
                    lst.out.count_query[1].joins[i].fn = "outerjoin"
              /\ \A key \in DOMAIN lst.out.count_joins : key[1] = FALSE
        /\ Returned => QueryRows(lst.out.query) = RowsAskedFor

\* The query was joined for a search and a sort, and kept a row that has no
\* related row
C17_Witness ==
    /\ Returned
    /\ lst.args.search # <<>>
    /\ lst.args.sort_column = "title"
    /\ Len(lst.out.query.joins) > 0
    /\ \E row \in QueryRows(lst.out.query) : row.title = Null

\* The join keys of a set of paths
PathKeys(paths) == UNION {{<<FALSE, path[k]>> : k \in 1..Len(path)} : path \in paths}

SearchPaths ==
    IF Words(lst.args.search, {" "}) # <<>>
    THEN {SearchFields[i].path : i \in 1..Len(SearchFields)}
    ELSE {}

FilterPaths ==
    {Filters[lst.args.filters[i].idx + 1].path :
        i \in {j \in 1..Len(lst.args.filters) :
                 IsBaseSQLAFilter(Filters[lst.args.filters[j].idx + 1])}}

SortPaths ==
    IF lst.args.sort_column = NoColumn
    THEN {DefaultOrder[i].path : i \in 1..Len(DefaultOrder)}
    ELSE IF lst.args.sort_column \in DOMAIN SortableColumns
         THEN {SortableColumns[lst.args.sort_column].parts[i].path :
                  i \in 1..Len(SortableColumns[lst.args.sort_column].parts)}
         ELSE {}

\* A query's conjuncts, of search and of filters, each alias replaced by the
\* path item it stands for in the query's joins dict
Predicates(q, js) ==
    [i \in 1..Len(q.where) |->
        [j \in 1..Len(q.where[i]) |->
            [q.where[i][j] EXCEPT !.alias = AliasItem(js, @)]]]

\* C18: each submitted (index, _, value) triple goes to the filter registered
\* at position index; its value is cleaned once; its predicate is added to
\* the listing query and to the count query, with the same join path, so
\* that after search and filters the count query has the join paths the
\* listing query has (the listing query then gets those of the sort).
C18_FiltersOnBothQueries ==
    Returned =>
        /\ lst.out.cleaned = [i \in 1..Len(lst.args.filters) |-> lst.args.filters[i].idx]
        /\ Len(lst.out.query.where)
              = Len(Words(lst.args.search, {" "})) + Len(lst.args.filters)
        /\ \A i \in 1..Len(lst.args.filters) :
              LET conjunct == lst.out.query.where[Len(Words(lst.args.search, {" "})) + i]
                  flt == Filters[lst.args.filters[i].idx + 1]
              IN /\ Len(conjunct) = 1
                 /\ conjunct[1].field = flt.column
                 /\ AliasItem(lst.out.joins, conjunct[1].alias)
                       = IF IsBaseSQLAFilter(flt) THEN PathEnd(flt.path) ELSE "model"
        /\ DOMAIN lst.out.joins = PathKeys(SearchPaths \cup FilterPaths \cup SortPaths)
        /\ lst.out.count_query # <<>> =>
              /\ Predicates(lst.out.count_query[1], lst.out.count_joins)
                    = Predicates(lst.out.query, lst.out.joins)
              /\ DOMAIN lst.out.count_joins = PathKeys(SearchPaths \cup FilterPaths)
              /\ Len(lst.out.count_query[1].joins)
                    = Cardinality(PathKeys(SearchPaths \cup FilterPaths))

\* Two filters were submitted, one of them on a column behind a relation,
\* and the count query was joined for it
C18_Witness ==
    /\ Returned
    /\ ~simpleListPager
    /\ Len(lst.args.filters) = 2
    /\ lst.args.search = <<>>
    /\ <<FALSE, "rel_a">> \in DOMAIN lst.out.count_joins
    /\ Len(lst.out.count_query[1].where) = 2

(***************************************************************************)
(* C16: the order of the steps of delete_model                             *)
(***************************************************************************)
\* Where in the trace of the call the first event of a name is, 0 when
\* there is none
Position(ev) ==
    IF HasEvent(ev)
    THEN CHOOSE i \in 1..Len(op.trace) :
            /\ op.trace[i].ev = ev
            /\ \A j \in 1..(i - 1) : op.trace[j].ev # ev
    ELSE 0

\* Of two steps the second is not taken without the first having succeeded
\* before it
Precedes(first, second) ==
    HasEvent(second) =>
        /\ HasEvent(first)
        /\ Position(first) < Position(second)
        /\ op.trace[Position(first)].ok

StepsInOrder ==
    /\ Precedes("on_model_delete", "flush")
    /\ Precedes("flush", "delete")
    /\ Precedes("delete", "commit")
    /\ Precedes("commit", "after_model_delete")
    /\ \A ev \in SeqRange(DeleteSteps) \cup {"after_model_delete"} :
          EventCount(ev, op.trace[1].row) <= 1

\* C16 as stated: delete_model takes its steps in the order pre-delete hook,
\* flush, delete, commit, the post-delete hook after the commit only, and
\* the pending state has been flushed by the time the pre-delete hook
\* observes it.
C16_FlushedWhenHookObserves ==
    op.name = "delete_model" =>
        /\ StepsInOrder
        /\ \E i \in 1..Len(op.trace) :
              /\ op.trace[i].ev = "flush"
              /\ op.trace[i].ok
              /\ i < Position("on_model_delete")

\* C16, amended: delete_model takes its steps in the order pre-delete hook,
\* flush, delete, commit, the post-delete hook after the commit only; the
\* pre-delete hook is the first step, so that nothing has been flushed when
\* it observes the session, and the flush follows it.
C16_HookThenFlush ==
    op.name = "delete_model" =>
        /\ StepsInOrder
        /\ op.trace[1].ev = "on_model_delete"
        /\ \A i \in 1..Len(op.trace) :
              op.trace[i].ev = "flush" => i > Position("on_model_delete")

\* A row was deleted, every step of delete_model taken
C16_Witness ==
    /\ op.name = "delete_model"
    /\ op.result = "True"
    /\ [i \in 1..Len(op.trace) |-> op.trace[i].ev]
          = <<"on_model_delete", "flush", "delete", "commit", "after_model_delete">>
    /\ op.arg \cap db = {}

(***************************************************************************)
(* C15: configuration errors at registration                               *)
(***************************************************************************)
Constructed == reg.state # "none"

BadSearchName ==
    \E i \in 1..Len(reg.config.column_searchable_list) :
        GetFieldWithPath(reg.config.column_searchable_list[i]).attr = "None"

BadFilterName ==
    \E i \in 1..Len(reg.config.column_filters) :
        LET f == GetFieldWithPath(reg.config.column_filters[i])
        IN f.attr = "None" \/ (f.attr = "column" /\ f.columns > 1)

\* A path that is not empty and does not start at a relationship
NotRelationPath(path) == path # <<>> /\ path[1] \notin Relations

\* A sortable entry, plain or composite, with a path that is no relation path
BadSortEntry ==
    \E i \in 1..Len(reg.config.column_sortable_list) :
        \E k \in 1..Len(reg.config.column_sortable_list[i].names) :
            NotRelationPath(GetFieldWithPath(reg.config.column_sortable_list[i].names[k]).path)

\* A plain sortable entry with a path that is no relation path
BadPlainSortEntry ==
    \E i \in 1..Len(reg.config.column_sortable_list) :
        /\ ~reg.config.column_sortable_list[i].composite
        /\ NotRelationPath(GetFieldWithPath(reg.config.column_sortable_list[i].names[1]).path)

RaisedWhereItShould(badSort) ==
    /\ reg.raised_in = "__init__" => ~reg.config.has_pk
    /\ reg.raised_in = "init_search" => BadSearchName
    /\ reg.raised_in = "scaffold_filters" => BadFilterName
    /\ reg.raised_in = "get_sortable_columns" => badSort

NoRequestOnFailedView == reg.state = "failed" => ~reg.served

\* C15 as stated: constructing a view raises, and no request is served, when
\* the model has no primary key, a searchable name resolves to no attribute,
\* a filter name resolves to no attribute or maps to more than one column,
\* or a sortable entry has a path that is no relation path.
C15_ConfigurationErrorsAreFatal ==
    Constructed =>
        /\ (~reg.config.has_pk \/ BadSearchName \/ BadFilterName \/ BadSortEntry)
              <=> reg.state = "failed"
        /\ RaisedWhereItShould(BadSortEntry)
        /\ NoRequestOnFailedView

\* C15, amended: the same, the sortable entries that raise being the plain
\* ones; the component paths of a composite sortable entry are not checked.
C15_PlainSortEntriesChecked ==
    Constructed =>
        /\ (~reg.config.has_pk \/ BadSearchName \/ BadFilterName \/ BadPlainSortEntry)
              <=> reg.state = "failed"
        /\ RaisedWhereItShould(BadPlainSortEntry)
        /\ NoRequestOnFailedView

\* The construction of a view with a primary key failed in
\* get_sortable_columns, which no composite sortable entry can bring about
C15_Witness ==
    /\ reg.state = "failed"
    /\ reg.config.has_pk
    /\ reg.raised_in = "get_sortable_columns"
    /\ BadPlainSortEntry

(***************************************************************************)
(* C19: QuerySelectField rejects a choice that is not in the query         *)
(***************************************************************************)
QueryKeys(objects) == {PkText(obj) : obj \in objects}

SelValidated == sel.raw_data # NotSubmitted /\ sel.validated # "none"

\* C19: when the submitted key is not the key of an object of the query,
\* pre_validate raises a validation error, whether allow_blank is set or
\* not; the one exception is the blank choice '__None' with allow_blank set,
\* after which data is None and pre_validate raises nothing.
C19_ChoiceOutsideQueryIsInvalid ==
    (SelValidated /\ sel.raw_data # <<>>) =>
        IF sel.allow_blank /\ sel.raw_data[1] = "__None"
        THEN sel._data = NoObj /\ sel.validated = "ok"
        ELSE sel.raw_data[1] \notin QueryKeys(sel.query) => sel.validated = "error"

(***************************************************************************)
(* C20: QuerySelectMultipleField rejects items that are not in the query   *)
(***************************************************************************)
MselValidated == msel.raw_data # NotSubmitted /\ msel.validated # "none"

\* C20: when a submitted item is not the key of an object of the query,
\* pre_validate raises 'Not a valid choice', in whatever order
\* process_formdata, the reads of data and pre_validate happen, and so when
\* pre_validate runs before data was ever read; when nothing is submitted,
\* data reads as the empty list.
C20_ItemOutsideQueryIsInvalid ==
    /\ (MselValidated /\ ToSet(msel.raw_data) \ QueryKeys(msel.query) # {})
          => msel.validated = "error"
    /\ msel.raw_data = <<>> => MselGetData(msel)._data = <<>>

(***************************************************************************)
(* C21: primary-key identifiers round-trip                                 *)
(***************************************************************************)
KeyText(key) == [i \in 1..Len(key) |-> CastUnicode(key[i]).v]

HasDelimiter(key) ==
    \E i \in 1..Len(key) : \E k \in 1..Len(KeyText(key)[i]) :
        KeyText(key)[i][k] \in {CharSeparator, CharEscape}

MutationSteps ==
    {"build_new_instance", "populate_obj", "add", "delete", "on_model_change",
     "on_model_delete"}

CommitsDone == {i \in 1..Len(op.trace) : op.trace[i].ev = "commit" /\ op.trace[i].ok}

RollbacksDone == {i \in 1..Len(op.trace) : op.trace[i].ev = "rollback"}

EndedInCommit == Cardinality(CommitsDone) = 1 /\ RollbacksDone = {}

EndedInRollback == CommitsDone = {} /\ Cardinality(RollbacksDone) = 1

NoMutationAfterTheEnd ==
    \A i \in CommitsDone \cup RollbacksDone :
        \A j \in (i + 1)..Len(op.trace) : op.trace[j].ev \notin MutationSteps

\* C22: a create_model, update_model or delete_model call ends in exactly
\* one of commit and rollback: a call in which nothing raised before the
\* commit was done commits once and does not roll back, a call in which a
\* step of the try block raised rolls back and commits nothing, and no
\* mutation step runs after the commit or the rollback.
C22_CommitOrRollback ==
    op.name \in SingleRowOps =>
        /\ EndedInCommit \/ EndedInRollback
        /\ RaisedInTryAt = {} => EndedInCommit
        /\ RaisedInTryAt # {} => EndedInRollback
        /\ NoMutationAfterTheEnd

(***************************************************************************)
(* C23: the joins maps are scoped to one get_list call                     *)
(***************************************************************************)
InFlight(r) == inflight[r].phase # "new"

\* C23: a get_list call starts from empty joins and count_joins maps, the
\* view-level state stays as registration left it, and a call that ran
\* interleaved with another on the same view returns what it returns when
\* it runs alone, the joins included.
C23_JoinsAreRequestScoped ==
    /\ viewState = ViewLevelState
    /\ \A r \in Requests :
        /\ inflight[r].phase = "started" =>
              inflight[r].st.joins = <<>> /\ inflight[r].st.cjoins = <<>>
        /\ inflight[r].phase = "done" =>
              ListReturn(inflight[r].st)
                  = GetListRun(inflight[r].args, simpleListPager, viewPageSize)

\* One call has returned with joins while another, with other arguments,
\* is between its search and its filters
C23_Witness ==
    /\ inflight["r1"].phase = "done"
    /\ inflight["r1"].st.joins # <<>>
    /\ inflight["r2"].phase = "searched"
    /\ inflight["r2"].args # inflight["r1"].args
    /\ inflight["r2"].st.joins # <<>>

(***************************************************************************)
(* C24: the join a call appends, and the default of inner_join             *)
(***************************************************************************)
\* The clauses the latest call appended are all of the given kind
AppendedAre(fn) == \A i \in (Len(query) + 1)..Len(query') : query'[i].fn = fn

JoinFn(inner) == IF inner THEN "join" ELSE "outerjoin"

IsCall == ncalls' = ncalls + 1

\* C24 as stated: a call appends inner joins when it is passed
\* inner_join=True and left outer joins otherwise, the call that passes no
\* inner_join included.
C24_DefaultIsOuterJoin == [][IsCall => AppendedAre(JoinFn(passed' = "True"))]_vars

\* C24, amended: a call appends inner joins when it is passed inner_join=True
\* or no inner_join at all, whose default is True, and left outer joins when
\* it is passed inner_join=False.
C24_DefaultIsInnerJoin ==
    [][IsCall => AppendedAre(JoinFn(passed' \in {"True", "omitted"}))]_vars

\* The first call of a pass was passed no inner_join and appended an inner
\* join
C24_Witness ==
    /\ passed = "omitted"
    /\ ncalls = 1
    /\ Len(query) > 0
    /\ \A i \in 1..Len(query) : query[i].fn = "join"

(***************************************************************************)
(* C25: hops chain off the previous hop                                    *)
(***************************************************************************)
\* The clause of the query that joined `item` with the given kind of join
ClauseOf(q, inner_join, item) ==
    q[CHOOSE i \in 1..Len(q) : q[i].item = item /\ q[i].fn = JoinFn(inner_join)]

\* The hops of the path, after the first, that the call joined: the key was
\* not in the joins dict and the item comes first in the path at hop i
HopsJoined(path, inner_join) ==
    {i \in 2..Len(path) :
        /\ <<inner_join, path[i]>> \notin DOMAIN joins
        /\ \A j \in 1..(i - 1) : path[j] # path[i]}

\* What a hop is joined from: the alias stored for the hop before it
ChainsOffPrevious(path, inner_join, i) ==
    ClauseOf(query', inner_join, path[i]).parent = joins'[<<inner_join, path[i - 1]>>]

ReturnsLastAlias(path, inner_join) ==
    Len(path) > 0 => last' = joins'[<<inner_join, path[Len(path)]>>]

\* C25 as stated: every hop after the first is joined from the alias of the
\* hop before it and never from the base table, whether that hop was
\* joined by this call, served from the joins dict or a direct table hop;
\* the call returns the alias of the last hop.
C25_HopsChainOffPreviousAlias ==
    [][\A path \in Paths, inner_join \in BOOLEAN :
          ApplyPathJoinsCall(path, inner_join) =>
              /\ \A i \in HopsJoined(path, inner_join) :
                    /\ ChainsOffPrevious(path, inner_join, i)
                    /\ ClauseOf(query', inner_join, path[i]).parent # NoAlias
              /\ ReturnsLastAlias(path, inner_join)]_vars

\* C25, amended: every hop after the first is joined from what the joins
\* dict holds for the hop before it, whether that hop was joined by this
\* call or served from the dict: the alias of a relationship hop, and, a
\* direct table hop having no alias, the base table after a table hop; the
\* call returns what the dict holds for the last hop.
C25_HopsChainOffPreviousHop ==
    [][\A path \in Paths, inner_join \in BOOLEAN :
          ApplyPathJoinsCall(path, inner_join) =>
              /\ \A i \in HopsJoined(path, inner_join) :
                    /\ ChainsOffPrevious(path, inner_join, i)
                    /\ ClauseOf(query', inner_join, path[i]).parent = NoAlias
                          <=> IsTable(path[i - 1])
              /\ ReturnsLastAlias(path, inner_join)]_vars

\* rel_b was joined from the alias of rel_a by a call that found rel_a in
\* the joins dict: rel_c was joined between the two
C25_Witness ==
    /\ Len(query) = 3
    /\ query[1].item = "rel_a"
    /\ query[2].item = "rel_c"
    /\ query[3].item = "rel_b"
    /\ query[3].parent = query[1].target
    /\ query[3].parent # NoAlias

(***************************************************************************)
(* C26: the three outcomes of a submitted row of an inline list            *)
(***************************************************************************)
\* The child, by position in the collection as it was, that row i matches;
\* 0 when it matches none
RowMatch(i) == PkMap(listLog.before, GetFieldId(listLog.entries[i]))

RowsDeleting == {i \in 1..Len(listLog.entries) : RowMatch(i) # 0 /\ listLog.entries[i].del}

RowsUpdating == {i \in 1..Len(listLog.entries) : RowMatch(i) # 0 /\ ~listLog.entries[i].del}

RowsCreating == {i \in 1..Len(listLog.entries) : RowMatch(i) = 0}

\* The child a row that creates one has appended: the new children follow
\* the old ones, in the order of their rows
CreatedBy(i) ==
    children[Len(listLog.before) + Cardinality({j \in RowsCreating : j <= i})]

\* The object row i works on
RowObject(i) == IF RowMatch(i) # 0 THEN listLog.before[RowMatch(i)].oid ELSE CreatedBy(i).oid

\* The rows that update child k, and the last of them
UpdatesOf(k) == {i \in RowsUpdating : RowMatch(i) = k}

LastUpdateOf(k) == CHOOSE i \in UpdatesOf(k) : \A j \in UpdatesOf(k) : j <= i

\* C26: a row whose key matches a child and that is marked for deletion
\* hands the child to session.delete and neither populates it nor fires the
\* hook; a row whose key matches and that is not marked updates the child
\* where it is, without appending it, and fires the hook with is_created
\* false; a row whose key matches no child appends a new child, populates it
\* and fires the hook with is_created true; a child no row refers to stays
\* as it was.
C26_InlineRowOutcomes ==
    listLog.called =>
        LET before == listLog.before
            entries == listLog.entries
            acting == SortedSeq(RowsUpdating \cup RowsCreating)
            deleting == SortedSeq(RowsDeleting)
        IN /\ Len(children) = Len(before) + Cardinality(RowsCreating)
           /\ \A k \in 1..Len(before) :
                 children[k] =
                     IF UpdatesOf(k) = {} THEN before[k]
                     ELSE [before[k] EXCEPT !.val = entries[LastUpdateOf(k)].val]
           /\ \A i \in RowsCreating :
                 /\ CreatedBy(i).oid \notin {before[k].oid : k \in 1..Len(before)}
                 /\ CreatedBy(i).pk = NoPk
                 /\ CreatedBy(i).val = entries[i].val
           /\ sdeleted = [n \in 1..Len(deleting) |-> RowObject(deleting[n])]
           /\ listLog.populated = [n \in 1..Len(acting) |-> RowObject(acting[n])]
           /\ listLog.hooks =
                 [n \in 1..Len(acting) |->
                     [oid |-> RowObject(acting[n]), is_created |-> acting[n] \in RowsCreating]]

\* One submission held a row of each outcome
C26_Witness ==
    /\ listLog.called
    /\ RowsDeleting # {}
    /\ RowsUpdating # {}
    /\ RowsCreating # {}
    /\ Len(sdeleted) = 1

(***************************************************************************)
(* C27: the one-to-one populate and the child's primary key                *)
(***************************************************************************)
\* getattr(child, name): the id column is the attribute pk
ChildAttr(child, name) == IF name = "id" THEN child.pk ELSE child[name]

\* The child populate_obj worked on, as it was before the loop
ChildBefore == IF oneLog.before = <<>> THEN NewOne ELSE oneLog.before[1]

\* The columns of the child's primary key
OnePkNames == {onePk.names[n] : n \in 1..Len(onePk.names)}

\* C27: for a child model with a single or a composite primary key, no
\* primary-key attribute of the child is populated from the submitted form:
\* after populate_obj every key column of the child holds what it held
\* before.
C27_PrimaryKeyNotPopulated ==
    (oneLog.called /\ one # <<>>) =>
        \A name \in OnePkNames :
            ChildAttr(one[1], name) = ChildAttr(ChildBefore, name)

\* The part of C27 that holds: a single-column key is skipped by the loop
SinglePrimaryKeyNotPopulated ==
    (oneLog.called /\ one # <<>> /\ onePk.t = "str") =>
        one[1].pk = ChildBefore.pk

\* A new child of the model keyed by (id, f1) took both key columns from
\* the form
CompositeKeyPopulated ==
    /\ oneLog.called
    /\ onePk.t = "tuple"
    /\ oneLog.before = <<>>
    /\ oneLog.form.id = PyStr("1")
    /\ oneLog.form.f1 = PyStr("x")
    /\ one # <<>>
    /\ one[1].pk = 1
    /\ one[1].f1 = PyStr("x")

(***************************************************************************)
(* C28: the post-commit hooks                                              *)
(***************************************************************************)
PostCommitHooks == {"after_model_change", "after_model_delete"}

\* The post-commit hook of a handler
HookOf(name) == IF name = "delete_model" THEN "after_model_delete" ELSE "after_model_change"

\* Positions of the trace where a post-commit hook was invoked
HooksAt == {i \in 1..Len(op.trace) : op.trace[i].ev \in PostCommitHooks}

\* The post-commit hook raised
HookRaised == \E i \in HooksAt : ~op.trace[i].ok

\* C28: in create_model, update_model and delete_model the handler's
\* post-commit hook is invoked exactly once when the commit succeeded, after
\* it, and not at all when a step of the try block raised or a rollback was
\* done; what the hook raises reaches the caller: the exception is not
\* handed to handle_view_exception, no rollback follows and the committed
\* change stays.
C28_HooksFireOnlyAfterCommit ==
    op.name \in SingleRowOps =>
        /\ \A i \in HooksAt : op.trace[i].ev = HookOf(op.name)
        /\ Cardinality(HooksAt) = Cardinality(CommitsDone)
        /\ Cardinality(HooksAt) <= 1
        /\ \A i \in HooksAt : \E j \in CommitsDone : j < i
        /\ (RaisedInTryAt # {} \/ RollbacksDone # {}) => HooksAt = {}
        /\ HookRaised =>
            /\ op.result = "raised"
            /\ op.exc = op.in.exc
            /\ ~HasEvent("handle_view_exception")
            /\ RollbacksDone = {}
            /\ db = (IF op.name = "delete_model" THEN op.before \ op.arg
                     ELSE IF op.name = "create_model"
                          THEN op.before \cup {SmallestFree(op.before)}
                          ELSE op.before)

\* delete_model committed the delete and after_model_delete raised: the row
\* is gone and the exception reached the caller
C28_Witness ==
    /\ op.name = "delete_model"
    /\ op.in.failAt = "after_model_delete"
    /\ op.result = "raised"
    /\ CommitsDone # {}
    /\ HooksAt # {}
    /\ db # op.before

(***************************************************************************)
(* C29: a sort column that is not sortable                                 *)
(***************************************************************************)
\* The call named a sort column that is not a registered sortable column
UnregisteredSortColumn ==
    /\ lst.args.sort_column # NoColumn
    /\ lst.args.sort_column \notin DOMAIN SortableColumns

\* The queries and joins dicts of the call when _apply_sorting is reached
BeforeSorting ==
    ListOptions(ListCount(
        ListFilters(ListSearch(ListStart(simpleListPager), lst.args.search),
                    lst.args.filters)))

\* C29: for a sort column that is not a registered sortable column get_list
\* adds no order clause and no join: the query has the joins the search and
\* the filters gave it and the joins dict is theirs; and the default order
\* list is on the query only when the call named no sort column.
C29_UnregisteredSortColumnSortsNothing ==
    Returned =>
        /\ UnregisteredSortColumn =>
              /\ lst.out.query.order = <<>>
              /\ lst.out.query.joins = BeforeSorting.query.joins
              /\ lst.out.joins = BeforeSorting.joins
        /\ OrderFollows(DefaultOrder, DefaultDesc) => lst.args.sort_column = NoColumn

\* A call that searched, and so joined, named a column that is not sortable
C29_Witness ==
    /\ Returned
    /\ UnregisteredSortColumn
    /\ lst.args.search # <<>>
    /\ lst.out.query.joins # <<>>
    /\ lst.out.query.order = <<>>

(***************************************************************************)
(* C30: the row-by-row bulk delete is not atomic                           *)
(***************************************************************************)
\* Rows for which a step of delete_model's try block raised
FailedRows == {row \in PKs : \E i \in RaisedInTryAt : op.trace[i].row = row}

\* Rows whose delete_model call committed
CommittedRows == {row \in PKs : \E i \in CommitsDone : op.trace[i].row = row}

\* Rows whose delete_model call raised to the loop: the exception was
\* re-raised by handle_view_exception, or came from after_model_delete
RaisedOutRows ==
    {row \in PKs : \E i \in 1..Len(op.trace) :
        /\ op.trace[i].row = row
        /\ ~op.trace[i].ok
        /\ op.trace[i].ev \in {"handle_view_exception", "after_model_delete"}}

\* delete_model was called on the row
Attempted(row) == EventCount("on_model_delete", row) = 1

\* The except clause of the row's delete_model call rolled back
RolledBack(row) == EventCount("rollback", row) = 1

\* The commit of action_delete after the loop did not raise
FinalCommitWentThrough ==
    \A i \in 1..Len(op.trace) :
        (op.trace[i].ev = "commit" /\ op.trace[i].row = NoPk) => op.trace[i].ok

\* The loop went through every selected row: a row that failed was rolled
\* back, alone, the other rows are deleted, and action_delete commits once
\* more and reports the number of rows deleted
LoopWentThrough ==
    /\ \A row \in SelectedRows :
          /\ Attempted(row)
          /\ RolledBack(row) <=> row \in FailedRows
          /\ row \in DeletedRows <=> row \notin FailedRows
    /\ EventCount("commit", NoPk) = 1
    /\ FinalCommitWentThrough => (HasEvent("flash_success") /\ op.count = Cardinality(DeletedRows))

====
